---- MODULE Spec2Model ----
(***************************************************************************)
(* Model of the texture-experiments transform of                           *)
(* gapis/api/vulkan/transform_af_disabler.go (the definition that starts   *)
(* at line 162 of the file: the one with mipLevels, the image-view and     *)
(* the pipeline-barrier rewrites), and of startDevInfoService of           *)
(* gapidapk/deviceinfo.go.                                                 *)
(*                                                                         *)
(* Spec is the transform under its pipeline driver.  SpecHelper calls the  *)
(* helper-synthesis functions of the transform (command pool, command      *)
(* buffer) one by one: TransformCommand itself never reaches them.         *)
(* SpecDevInfo is startDevInfoService, step by step.                       *)
(*                                                                         *)
(* A command is a record: its kind, its identity (ref), its typed          *)
(* arguments and its observation set (reads and writes).  Memory is an     *)
(* address-keyed store; a "resource" is identified by its contents.        *)
(***************************************************************************)
EXTENDS Integers, Sequences, FiniteSets, TLC

VARIABLES
    experiment,   \* the textureExperiments object: policy flags and tracker
    inputState,   \* the api.GlobalState: application pool, allocator, arena
    pass,         \* position of the pipeline driver: Idle, Active, Draining
    ingested,     \* number of captured commands handed to the transform so far
    consumed,     \* the input commands of the current pass, in order
    outputCmds,   \* the output commands of the current pass, in order
    lastIn,       \* the batch given to the latest TransformCommand call
    lastOut,      \* the batch returned by the latest TransformCommand call
    lastErr,      \* the error returned by the latest TransformCommand call ("" is nil)
    passStart,    \* experiment and inputState as they were right after BeginTransform
    mutated,      \* the commands the state mutator has applied, in order
    helperRet,    \* what the latest call of a helper-synthesis function returned
    dev,          \* the device-info fetch of gapidapk: position, counters, outcome
    fetch         \* the fetchDeviceInfo runs of gapidapk and the device locks of flock

vars == <<experiment, inputState, pass, ingested, consumed, outputCmds,
          lastIn, lastOut, lastErr, passStart, mutated, helperRet, dev, fetch>>

-----------------------------------------------------------------------------
(* Bounds of the model. *)

\* commands handed to the transform in one session
MaxCmds == 2
\* commands in one input batch
MaxBatch == 2

-----------------------------------------------------------------------------
(* Program constants. *)

mipLevels == 100

\* first address of the range the state's allocator hands out
ScratchBase == 16

-----------------------------------------------------------------------------
(* The captured commands the transform is fed with. *)

SamplerInfos ==
    { [sType |-> "VkSamplerCreateInfo",
       magFilter |-> "LINEAR", minFilter |-> "LINEAR", mipmapMode |-> "LINEAR",
       anisotropyEnable |-> a, maxAnisotropy |-> IF a = 1 THEN 16 ELSE 1,
       minLod |-> 1, maxLod |-> 4,
       unnormalizedCoordinates |-> u] : a \in {0, 1}, u \in {0, 1} }

ImageInfos ==
    { [sType |-> "VkImageCreateInfo", imageType |-> "2D", width |-> 4, height |-> 4,
       mipLevels |-> m, arrayLayers |-> 1] : m \in {0, 1} }

SubresourceRange(baseMipLevel, levelCount) ==
    [aspectMask |-> 1, baseMipLevel |-> baseMipLevel, levelCount |-> levelCount,
     baseArrayLayer |-> 0, layerCount |-> 1]

\* the default sub-range, one with a level count only, one with a base level only
SubresourceRanges ==
    { SubresourceRange(0, 0), SubresourceRange(0, 1), SubresourceRange(1, 0) }

ImageViewInfos ==
    { [sType |-> "VkImageViewCreateInfo", image |-> 7, viewType |-> "2D",
       subresourceRange |-> r] : r \in SubresourceRanges }

ImageMemoryBarrier(baseMipLevel, levelCount) ==
    [sType |-> "VkImageMemoryBarrier", oldLayout |-> 0, newLayout |-> 1, image |-> 7,
     subresourceRange |-> SubresourceRange(baseMipLevel, levelCount)]

\* no barrier; one that has a sub-range; default and non-default ones mixed, in
\* both orders; two that have a sub-range
BarrierArrays ==
    { <<>>,
      <<ImageMemoryBarrier(0, 1)>>,
      <<ImageMemoryBarrier(0, 0), ImageMemoryBarrier(1, 0)>>,
      <<ImageMemoryBarrier(0, 1), ImageMemoryBarrier(0, 0)>>,
      <<ImageMemoryBarrier(1, 0), ImageMemoryBarrier(0, 1)>> }

CreateArgs(pCreateInfo, pOut) ==
    [device |-> 1, pCreateInfo |-> pCreateInfo, pAllocator |-> 0, pOut |-> pOut,
     result |-> "VK_SUCCESS"]

\* a create command observes its create info as read, and the handle it returns
\* and the bytes after it as written
CreateCmd(kind, pCreateInfo, pOut, info) ==
    [kind |-> kind, ref |-> <<"capture", 0>>, thread |-> 1,
     args |-> CreateArgs(pCreateInfo, pOut),
     reads |-> <<[base |-> pCreateInfo, data |-> info]>>,
     writes |-> <<[base |-> pOut, data |-> [sType |-> "handle", value |-> 7]],
                  [base |-> pOut + 4, data |-> [sType |-> "bytes", value |-> 1]]>>]

BarrierCmd(barriers) ==
    [kind |-> "VkCmdPipelineBarrier", ref |-> <<"capture", 0>>, thread |-> 1,
     args |-> [commandBuffer |-> 3, srcStageMask |-> 1, dstStageMask |-> 2,
               dependencyFlags |-> 0,
               memoryBarrierCount |-> 0, pMemoryBarriers |-> 0,
               bufferMemoryBarrierCount |-> 0, pBufferMemoryBarriers |-> 0,
               imageMemoryBarrierCount |-> Len(barriers),
               pImageMemoryBarriers |-> IF Len(barriers) = 0 THEN 0 ELSE 4],
     reads |-> IF Len(barriers) = 0 THEN <<>>
               ELSE <<[base |-> 4,
                       data |-> [sType |-> "VkImageMemoryBarrier[]", elems |-> barriers]]>>,
     writes |-> <<>>]

CapturedCmds ==
    { CreateCmd("VkCreateSampler", 1, 8, i) : i \in SamplerInfos }
    \cup { CreateCmd("VkCreateImage", 2, 9, i) : i \in ImageInfos }
    \cup { CreateCmd("VkCreateImageView", 3, 10, i) : i \in ImageViewInfos }
    \cup { BarrierCmd(b) : b \in BarrierArrays }
    \cup { CreateCmd("VkCreateBuffer", 5, 11, [sType |-> "VkBufferCreateInfo", size |-> 64]) }

Batches ==
    UNION { [1..n -> CapturedCmds] : n \in 1..MaxBatch }

\* the k-th command of the capture is its own object
Ingest(batch, n) ==
    [i \in 1..Len(batch) |-> [batch[i] EXCEPT !.ref = <<"capture", n + i>>]]

-----------------------------------------------------------------------------
(* api.GlobalState: the application pool, the allocator, the arena. *)

EmptyPool == [a \in {} |-> [sType |-> "none"]]

\* memory.Pool.Write
PoolWrite(pool, base, data) ==
    [a \in DOMAIN pool \cup {base} |-> IF a = base THEN data ELSE pool[a]]

\* api.CmdObservations.ApplyReads: every read observation is written into the pool
RECURSIVE ApplyReads(_, _)
ApplyReads(reads, pool) ==
    IF reads = <<>> THEN pool
    ELSE ApplyReads(Tail(reads), PoolWrite(pool, Head(reads).base, Head(reads).data))

\* Pointer.MustRead: a snapshot of the value the pointer refers to
MustRead(ptr, s) == s.pool[ptr]

\* the allocator reserves the lowest free address of its range
Alloc(allocator) ==
    CHOOSE a \in ScratchBase..(ScratchBase + Cardinality(allocator)) :
        /\ a \notin allocator
        /\ \A b \in ScratchBase..(a - 1) : b \in allocator

\* allocationTracker.AllocDataOrPanic: reserve a range in the state's allocator,
\* keep the value as the range's resource, and record the allocation in the tracker
AllocDataOrPanic(e, s, v) ==
    LET at == Alloc(s.allocator)
        res == [base |-> at, data |-> v]
    IN [res |-> res,
        experiment |-> [e EXCEPT !.allocations = Append(@, res)],
        inputState |-> [s EXCEPT !.allocator = @ \cup {at}]]

\* NewAllocationTracker
NewAllocationTracker(s) == <<>>

\* allocationTracker.FreeAllocations: free every tracked range
FreeAllocations(e, s) ==
    [experiment |-> [e EXCEPT !.allocations = <<>>],
     inputState |-> [s EXCEPT !.allocator =
                        @ \ {e.allocations[i].base : i \in 1..Len(e.allocations)}]]

\* CommandBuilder: a new command object with no observations
NewCmd(s, kind, thread, args) ==
    [kind |-> kind, ref |-> <<"built", s.built + 1>>, thread |-> thread, args |-> args,
     reads |-> <<>>, writes |-> <<>>]

AddRead(cmd, res) == [cmd EXCEPT !.reads = Append(@, res)]

AddWrite(cmd, w) == [cmd EXCEPT !.writes = Append(@, w)]

\* the write observations added last to first
AddWrites_Reversed(cmd, ws) ==
    [cmd EXCEPT !.writes = @ \o [k \in 1..Len(ws) |-> ws[Len(ws) + 1 - k]]]

RECURSIVE AddWrites(_, _)
AddWrites(cmd, ws) ==
    IF ws = <<>> THEN cmd ELSE AddWrites(AddWrite(cmd, Head(ws)), Tail(ws))

-----------------------------------------------------------------------------
(* The transform. *)

newTextureExperimentsTransform(disableAF, generateMipmaps) ==
    [disableAF |-> disableAF, generateMipmaps |-> generateMipmaps, allocations |-> <<>>,
     pool |-> 0, readMemoriesForCmd |-> <<>>, writeMemoriesForCmd |-> <<>>,
     stateMutator |-> "nil"]

\* experiment.stateMutator = mutator
SetMutator(e, mutator) == [e EXCEPT !.stateMutator = mutator]

\* what a rewrite returns: the command, a nil error, and the objects it worked on
Ret(cmd, e, s) == [cmd |-> cmd, err |-> "", experiment |-> e, inputState |-> s]

\* the anisotropy edit as the earlier definition of modifySamplerCreation wrote it:
\* the enable flag is cleared, the maximum is left alone
DisableAnisotropy_FlagOnly(e, info) ==
    IF e.disableAF THEN [info EXCEPT !.anisotropyEnable = 0] ELSE info

\* the anisotropy edit of modifySamplerCreation
DisableAnisotropy(e, info) ==
    IF e.disableAF /\ info.anisotropyEnable # 0
    THEN [info EXCEPT !.anisotropyEnable = 0, !.maxAnisotropy = 0]
    ELSE info

\* the mipmap edit as the earlier definition of modifySamplerCreation wrote it:
\* linear magnification when coordinates are normalized
SetSamplerMipmaps_LinearMag(e, info) ==
    IF ~e.generateMipmaps THEN info
    ELSE IF info.unnormalizedCoordinates # 0
    THEN [info EXCEPT !.mipmapMode = "NEAREST", !.minLod = 0, !.maxLod = 0,
                      !.minFilter = "NEAREST", !.magFilter = "NEAREST"]
    ELSE [info EXCEPT !.mipmapMode = "NEAREST", !.minLod = 0, !.maxLod = mipLevels,
                      !.minFilter = "NEAREST", !.magFilter = "LINEAR"]

\* the mipmap edit with the two LOD ranges exchanged
SetSamplerMipmaps_Swapped(e, info) ==
    IF ~e.generateMipmaps THEN info
    ELSE IF info.unnormalizedCoordinates = 0
    THEN [info EXCEPT !.mipmapMode = "NEAREST", !.minLod = 0, !.maxLod = 0,
                      !.minFilter = "NEAREST", !.magFilter = "NEAREST"]
    ELSE [info EXCEPT !.mipmapMode = "NEAREST", !.minLod = 0, !.maxLod = mipLevels,
                      !.minFilter = "NEAREST", !.magFilter = "NEAREST"]

\* the mipmap edit of modifySamplerCreation
SetSamplerMipmaps(e, info) ==
    IF ~e.generateMipmaps THEN info
    ELSE IF info.unnormalizedCoordinates # 0
    THEN [info EXCEPT !.mipmapMode = "NEAREST", !.minLod = 0, !.maxLod = 0,
                      !.minFilter = "NEAREST", !.magFilter = "NEAREST"]
    ELSE [info EXCEPT !.mipmapMode = "NEAREST", !.minLod = 0, !.maxLod = mipLevels,
                      !.minFilter = "NEAREST", !.magFilter = "NEAREST"]

\* rebuild a create command around a new create info
RebuildCreate(e, s, cmd, info) ==
    LET a == AllocDataOrPanic(e, s, info)
        newCmd == NewCmd(a.inputState, cmd.kind, cmd.thread,
                         [cmd.args EXCEPT !.pCreateInfo = a.res.base])
    IN Ret(AddWrites(AddRead(newCmd, a.res), cmd.writes),
           a.experiment,
           [a.inputState EXCEPT !.built = @ + 1])

\* modifySamplerCreation without its policy check
modifySamplerCreation_NoCheck(e, cmd, s) ==
    LET s1 == [s EXCEPT !.pool = ApplyReads(cmd.reads, @)]
        info == MustRead(cmd.args.pCreateInfo, s1)
    IN RebuildCreate(e, s1, cmd, SetSamplerMipmaps(e, DisableAnisotropy(e, info)))

modifySamplerCreation(e, cmd, s) ==
    IF ~e.generateMipmaps /\ ~e.disableAF THEN Ret(cmd, e, s)
    ELSE
      LET s1 == [s EXCEPT !.pool = ApplyReads(cmd.reads, @)]
          info == MustRead(cmd.args.pCreateInfo, s1)
      IN RebuildCreate(e, s1, cmd, SetSamplerMipmaps(e, DisableAnisotropy(e, info)))

\* modifyImageCreation without the "mipmaps are already enabled" return
modifyImageCreation_NoCheck(e, cmd, s) ==
    IF ~e.generateMipmaps THEN Ret(cmd, e, s)
    ELSE
      LET s1 == [s EXCEPT !.pool = ApplyReads(cmd.reads, @)]
          info == MustRead(cmd.args.pCreateInfo, s1)
      IN RebuildCreate(e, s1, cmd, [info EXCEPT !.mipLevels = mipLevels])

\* modifyImageCreation that adds the mip levels to those the image has
modifyImageCreation_AddLevels(e, cmd, s) ==
    IF ~e.generateMipmaps THEN Ret(cmd, e, s)
    ELSE
      LET s1 == [s EXCEPT !.pool = ApplyReads(cmd.reads, @)]
          info == MustRead(cmd.args.pCreateInfo, s1)
      IN RebuildCreate(e, s1, cmd, [info EXCEPT !.mipLevels = @ + mipLevels])

modifyImageCreation(e, cmd, s) ==
    IF ~e.generateMipmaps THEN Ret(cmd, e, s)
    ELSE
      LET s1 == [s EXCEPT !.pool = ApplyReads(cmd.reads, @)]
          info == MustRead(cmd.args.pCreateInfo, s1)
      IN IF info.mipLevels # 0 THEN Ret(cmd, e, s1)
         ELSE RebuildCreate(e, s1, cmd, [info EXCEPT !.mipLevels = mipLevels])

\* modifyImageViewCreation that returns early only when both fields are set
modifyImageViewCreation_And(e, cmd, s) ==
    IF ~e.generateMipmaps THEN Ret(cmd, e, s)
    ELSE
      LET s1 == [s EXCEPT !.pool = ApplyReads(cmd.reads, @)]
          info == MustRead(cmd.args.pCreateInfo, s1)
      IN IF info.subresourceRange.baseMipLevel # 0 /\ info.subresourceRange.levelCount # 0
         THEN Ret(cmd, e, s1)
         ELSE RebuildCreate(e, s1, cmd,
                  [info EXCEPT !.subresourceRange.baseMipLevel = 0,
                               !.subresourceRange.levelCount = mipLevels])

modifyImageViewCreation(e, cmd, s) ==
    IF ~e.generateMipmaps THEN Ret(cmd, e, s)
    ELSE
      LET s1 == [s EXCEPT !.pool = ApplyReads(cmd.reads, @)]
          info == MustRead(cmd.args.pCreateInfo, s1)
      IN IF info.subresourceRange.baseMipLevel # 0 \/ info.subresourceRange.levelCount # 0
         THEN Ret(cmd, e, s1)
         ELSE RebuildCreate(e, s1, cmd,
                  [info EXCEPT !.subresourceRange.baseMipLevel = 0,
                               !.subresourceRange.levelCount = mipLevels])

\* the loop body that keeps a barrier only when both fields are set
NewBarrier_And(barrier) ==
    IF barrier.subresourceRange.baseMipLevel # 0 /\ barrier.subresourceRange.levelCount # 0
    THEN barrier
    ELSE [barrier EXCEPT !.subresourceRange.baseMipLevel = 0,
                         !.subresourceRange.levelCount = mipLevels]

\* the loop body of modifyCmdPipelineBarrier
NewBarrier(barrier) ==
    IF barrier.subresourceRange.baseMipLevel # 0 \/ barrier.subresourceRange.levelCount # 0
    THEN barrier
    ELSE [barrier EXCEPT !.subresourceRange.baseMipLevel = 0,
                         !.subresourceRange.levelCount = mipLevels]

\* the rebuild of modifyCmdPipelineBarrier: allocate the new array, write it into the
\* application pool, build the command, clone the observations, add the read
BuildPipelineBarrier(e, cmd, s1, newBarriers) ==
    LET a == AllocDataOrPanic(e, s1,
                 [sType |-> "VkImageMemoryBarrier[]", elems |-> newBarriers])
        s2 == [a.inputState EXCEPT !.pool = PoolWrite(@, a.res.base, a.res.data)]
        newCmd == NewCmd(s2, cmd.kind, cmd.thread,
                         [cmd.args EXCEPT !.pImageMemoryBarriers = a.res.base])
        cloned == [newCmd EXCEPT !.reads = cmd.reads, !.writes = cmd.writes]
    IN Ret(AddRead(cloned, a.res), a.experiment, [s2 EXCEPT !.built = @ + 1])

\* modifyCmdPipelineBarrier that returns the input when no barrier was rewritten
modifyCmdPipelineBarrier_SkipUnchanged(e, cmd, s) ==
    IF ~e.generateMipmaps THEN Ret(cmd, e, s)
    ELSE
      LET s1 == [s EXCEPT !.pool = ApplyReads(cmd.reads, @)]
      IN IF cmd.args.imageMemoryBarrierCount = 0 THEN Ret(cmd, e, s1)
         ELSE
           LET imageMemoryBarriers ==
                   SubSeq(MustRead(cmd.args.pImageMemoryBarriers, s1).elems,
                          1, cmd.args.imageMemoryBarrierCount)
               newBarriers == [i \in 1..Len(imageMemoryBarriers) |->
                                   NewBarrier(imageMemoryBarriers[i])]
           IN IF newBarriers = imageMemoryBarriers THEN Ret(cmd, e, s1)
              ELSE BuildPipelineBarrier(e, cmd, s1, newBarriers)

\* modifyCmdPipelineBarrier that appends only the barriers it rewrites
modifyCmdPipelineBarrier_DropKept(e, cmd, s) ==
    IF ~e.generateMipmaps THEN Ret(cmd, e, s)
    ELSE
      LET s1 == [s EXCEPT !.pool = ApplyReads(cmd.reads, @)]
      IN IF cmd.args.imageMemoryBarrierCount = 0 THEN Ret(cmd, e, s1)
         ELSE
           LET imageMemoryBarriers ==
                   SubSeq(MustRead(cmd.args.pImageMemoryBarriers, s1).elems,
                          1, cmd.args.imageMemoryBarrierCount)
               rewritten(barrier) == NewBarrier(barrier) # barrier
               kept == SelectSeq(imageMemoryBarriers, rewritten)
               newBarriers == [i \in 1..Len(kept) |-> NewBarrier(kept[i])]
           IN BuildPipelineBarrier(e, cmd, s1, newBarriers)

modifyCmdPipelineBarrier(e, cmd, s) ==
    IF ~e.generateMipmaps THEN Ret(cmd, e, s)
    ELSE
      LET s1 == [s EXCEPT !.pool = ApplyReads(cmd.reads, @)]
      IN IF cmd.args.imageMemoryBarrierCount = 0 THEN Ret(cmd, e, s1)
         ELSE
           LET imageMemoryBarriers ==
                   SubSeq(MustRead(cmd.args.pImageMemoryBarriers, s1).elems,
                          1, cmd.args.imageMemoryBarrierCount)
               newBarriers == [i \in 1..Len(imageMemoryBarriers) |->
                                   NewBarrier(imageMemoryBarriers[i])]
           IN BuildPipelineBarrier(e, cmd, s1, newBarriers)

\* the type switch with a default arm that applies the command's observations
Dispatch_DefaultApplies(e, cmd, s) ==
    CASE cmd.kind = "VkCreateSampler" -> modifySamplerCreation(e, cmd, s)
      [] cmd.kind = "VkCreateImage" -> modifyImageCreation(e, cmd, s)
      [] cmd.kind = "VkCreateImageView" -> modifyImageViewCreation(e, cmd, s)
      [] cmd.kind = "VkCmdPipelineBarrier" -> modifyCmdPipelineBarrier(e, cmd, s)
      [] OTHER -> Ret(cmd, e, [s EXCEPT !.pool = ApplyReads(cmd.reads, @)])

\* the type switch of TransformCommand
Dispatch(e, cmd, s) ==
    CASE cmd.kind = "VkCreateSampler" -> modifySamplerCreation(e, cmd, s)
      [] cmd.kind = "VkCreateImage" -> modifyImageCreation(e, cmd, s)
      [] cmd.kind = "VkCreateImageView" -> modifyImageViewCreation(e, cmd, s)
      [] cmd.kind = "VkCmdPipelineBarrier" -> modifyCmdPipelineBarrier(e, cmd, s)
      [] OTHER -> Ret(cmd, e, s)

\* the loop with each output put in front of the earlier ones
RECURSIVE TransformLoop_Prepend(_, _, _, _)
TransformLoop_Prepend(e, inputCommands, s, outputSoFar) ==
    IF inputCommands = <<>>
    THEN [outputCmds |-> outputSoFar, err |-> "", experiment |-> e, inputState |-> s]
    ELSE LET r == Dispatch(e, Head(inputCommands), s)
         IN IF r.err # ""
            THEN [outputCmds |-> <<>>, err |-> r.err,
                  experiment |-> r.experiment, inputState |-> r.inputState]
            ELSE TransformLoop_Prepend(r.experiment, Tail(inputCommands), r.inputState,
                                       <<r.cmd>> \o outputSoFar)

RECURSIVE TransformLoop(_, _, _, _)
TransformLoop(e, inputCommands, s, outputSoFar) ==
    IF inputCommands = <<>>
    THEN [outputCmds |-> outputSoFar, err |-> "", experiment |-> e, inputState |-> s]
    ELSE LET r == Dispatch(e, Head(inputCommands), s)
         IN IF r.err # ""
            THEN [outputCmds |-> <<>>, err |-> r.err,
                  experiment |-> r.experiment, inputState |-> r.inputState]
            ELSE TransformLoop(r.experiment, Tail(inputCommands), r.inputState,
                               Append(outputSoFar, r.cmd))

\* TransformCommand that starts every call with a tracker of its own
TransformCommandResult_OwnTracker(e, inputCommands, s) ==
    TransformLoop([e EXCEPT !.allocations = <<>>], inputCommands, s, <<>>)

TransformCommandResult(e, inputCommands, s) == TransformLoop(e, inputCommands, s, <<>>)

-----------------------------------------------------------------------------
(* The helper synthesis: command pool, command buffer, state mutator. *)

\* handles the id generator can return
MaxHandle == 3
\* calls of the helper-synthesis functions in one pass
MaxHelperCalls == 2

Handles == 1..MaxHandle

HandleData(h) == [sType |-> "handle", value |-> h]

NilQueueObject == [device |-> 0, family |-> 0]

Queues == { [device |-> 1, family |-> 0] }

\* newUnusedID: an id is acceptable when it is not 0 and the existence test rejects it
newUnusedID(x, exists) == x # 0 /\ ~exists

\* the value a command's pointer argument refers to, as the command writes it
WrittenAt(cmd, ptr) ==
    cmd.writes[CHOOSE i \in 1..Len(cmd.writes) : cmd.writes[i].base = ptr].data

\* the value a command's pointer argument refers to, as the command reads it
ObservedAt(cmd, ptr) ==
    cmd.reads[CHOOSE i \in 1..Len(cmd.reads) : cmd.reads[i].base = ptr].data

\* the memory effect of executing a command: its observations land in the pool
ApplyObservations(cmd, pool) == ApplyReads(cmd.writes, ApplyReads(cmd.reads, pool))

\* executing one command against the state: the registry effect of its kind
Mutate(s, cmd) ==
    LET s1 == [s EXCEPT !.pool = ApplyObservations(cmd, @)]
    IN CASE cmd.kind = "VkCreateCommandPool" ->
              LET h == WrittenAt(cmd, cmd.args.pCommandPool).value
              IN IF h \in s.commandPools
                 THEN [err |-> "HandleCollision", inputState |-> s]
                 ELSE [err |-> "", inputState |-> [s1 EXCEPT !.commandPools = @ \cup {h}]]
         [] cmd.kind = "VkAllocateCommandBuffers" ->
              LET h == WrittenAt(cmd, cmd.args.pCommandBuffers).value
                  p == ObservedAt(cmd, cmd.args.pAllocateInfo).commandPool
              IN IF p \notin s.commandPools
                 THEN [err |-> "UnknownHandle", inputState |-> s]
                 ELSE IF h \in s.commandBuffers
                 THEN [err |-> "HandleCollision", inputState |-> s]
                 ELSE [err |-> "", inputState |-> [s1 EXCEPT !.commandBuffers = @ \cup {h}]]
         [] cmd.kind = "VkBeginCommandBuffer" ->
              IF cmd.args.commandBuffer \notin s.commandBuffers \ s.recording
              THEN [err |-> "UnknownHandle", inputState |-> s]
              ELSE [err |-> "",
                    inputState |-> [s1 EXCEPT !.recording = @ \cup {cmd.args.commandBuffer}]]
         [] cmd.kind = "VkEndCommandBuffer" ->
              IF cmd.args.commandBuffer \notin s.recording
              THEN [err |-> "UnknownHandle", inputState |-> s]
              ELSE [err |-> "",
                    inputState |-> [s1 EXCEPT !.recording = @ \ {cmd.args.commandBuffer}]]
         [] OTHER -> [err |-> "", inputState |-> s1]

\* the state mutator: the commands are executed in order, each before the next, and
\* the call returns when all are executed or one fails; fails says that the
\* pipeline behind the mutator rejects this call
RECURSIVE stateMutator(_, _, _, _)
stateMutator(s, log, cmds, fails) ==
    IF fails THEN [err |-> "MutateFailed", inputState |-> s, mutated |-> log]
    ELSE IF cmds = <<>> THEN [err |-> "", inputState |-> s, mutated |-> log]
    ELSE LET m == Mutate(s, Head(cmds))
         IN IF m.err # "" THEN [err |-> m.err, inputState |-> s, mutated |-> log]
            ELSE stateMutator(m.inputState, Append(log, Head(cmds)), Tail(cmds), FALSE)

\* what the runtime reports when a nil function is called
NilFunctionCall == "invalid memory address or nil pointer dereference"

\* the call of experiment.stateMutator: a panic while no mutator is set
writeCommand(e, s, log, cmd, fails) ==
    IF e.stateMutator = "nil"
    THEN [err |-> NilFunctionCall, inputState |-> s, mutated |-> log]
    ELSE stateMutator(s, log, <<cmd>>, fails)

\* the error a caller returns for the error err of a call: a panic is not an error
\* value, it unwinds through the caller
ErrOr(err, wrapped) ==
    IF err = NilFunctionCall THEN NilFunctionCall ELSE IF err # "" THEN wrapped ELSE ""

mustAllocReadDataForCmd(e, s, v) ==
    LET a == AllocDataOrPanic(e, s, v)
    IN [res |-> a.res,
        experiment |-> [a.experiment EXCEPT !.readMemoriesForCmd = Append(@, a.res)],
        inputState |-> [a.inputState EXCEPT !.pool = PoolWrite(@, a.res.base, a.res.data)]]

mustAllocWriteDataForCmd(e, s, v) ==
    LET a == AllocDataOrPanic(e, s, v)
    IN [res |-> a.res,
        experiment |-> [a.experiment EXCEPT !.writeMemoriesForCmd = Append(@, a.res)],
        inputState |-> a.inputState]

RECURSIVE AddReads(_, _)
AddReads(cmd, rs) ==
    IF rs = <<>> THEN cmd ELSE AddReads(AddRead(cmd, Head(rs)), Tail(rs))

observeAndWriteCommand(e, s, log, cmd, fails) ==
    LET observed == AddWrites(AddReads(cmd, e.readMemoriesForCmd), e.writeMemoriesForCmd)
        cleared == [e EXCEPT !.readMemoriesForCmd = <<>>, !.writeMemoriesForCmd = <<>>]
        w == writeCommand(cleared, s, log, observed, fails)
    IN [err |-> w.err,
        experiment |-> cleared,
        inputState |-> w.inputState,
        mutated |-> w.mutated]

\* a queue lookup that finds a queue
getQueue_Found(e, cmd, s) == CHOOSE q \in Queues : TRUE

getQueue(e, cmd, s) == NilQueueObject

\* the existence test getNewCommandPool gives to newUnusedID
CommandPoolsContains(s, x) == x \in s.commandPools

\* id is what newUnusedID returned; idOk says that newUnusedID can return it
getNewCommandPool(e, s, log, thread, queue, id, fails) ==
    LET commandPool == id
        poolCreateInfo == [sType |-> "VkCommandPoolCreateInfo", flags |-> "TRANSIENT",
                           queueFamilyIndex |-> queue.family]
        a1 == mustAllocReadDataForCmd(e, s, poolCreateInfo)
        a2 == mustAllocWriteDataForCmd(a1.experiment, a1.inputState, HandleData(commandPool))
        newCmd == NewCmd(a2.inputState, "VkCreateCommandPool", thread,
                         [device |-> queue.device, pCreateInfo |-> a1.res.base,
                          pAllocator |-> 0, pCommandPool |-> a2.res.base,
                          result |-> "VK_SUCCESS"])
        w == observeAndWriteCommand(a2.experiment, [a2.inputState EXCEPT !.built = @ + 1],
                                    log, newCmd, fails)
    IN [idOk |-> newUnusedID(id, CommandPoolsContains(s, id)),
        commandPool |-> IF w.err # "" THEN 0 ELSE commandPool,
        err |-> ErrOr(w.err, "Failed during creating command pool"),
        experiment |-> w.experiment, inputState |-> w.inputState, mutated |-> w.mutated]

\* an existence test that looks the id up among the command pools
CommandBuffersContains_Pools(s, x) == x \in s.commandPools

\* the existence test getNewCommandBuffer gives to newUnusedID
CommandBuffersContains(s, x) == x \in s.commandBuffers

\* id is what newUnusedID returned; idOk says that newUnusedID can return it
getNewCommandBuffer(e, s, thread, device, commandPool, id) ==
    LET commandBufferAllocateInfo ==
            [sType |-> "VkCommandBufferAllocateInfo", commandPool |-> commandPool,
             level |-> "PRIMARY", commandBufferCount |-> 1]
        a1 == AllocDataOrPanic(e, s, commandBufferAllocateInfo)
        commandBufferID == id
        a2 == AllocDataOrPanic(a1.experiment, a1.inputState, HandleData(commandBufferID))
        beginCommandBufferInfo ==
            [sType |-> "VkCommandBufferBeginInfo", flags |-> "ONE_TIME_SUBMIT",
             pInheritanceInfo |-> 0]
        a3 == AllocDataOrPanic(a2.experiment, a2.inputState, beginCommandBufferInfo)
        s1 == [a3.inputState EXCEPT !.built = @ + 1]
        allocate == NewCmd(a3.inputState, "VkAllocateCommandBuffers", thread,
                           [device |-> device, pAllocateInfo |-> a1.res.base,
                            pCommandBuffers |-> a2.res.base, result |-> "VK_SUCCESS"])
        begin == NewCmd(s1, "VkBeginCommandBuffer", thread,
                        [commandBuffer |-> commandBufferID, pBeginInfo |-> a3.res.base,
                         result |-> "VK_SUCCESS"])
    IN [idOk |-> newUnusedID(id, CommandBuffersContains(a1.inputState, id)),
        cmds |-> << AddWrite(AddRead(allocate, a1.res), a2.res), AddRead(begin, a3.res) >>,
        commandBufferID |-> commandBufferID,
        experiment |-> a3.experiment,
        inputState |-> [s1 EXCEPT !.built = @ + 1]]

\* the loop of generateMipmapsForImage that writes the commands one by one; called is
\* the number of mutator calls made before, failAt the call the mutator rejects
RECURSIVE WriteCommands(_, _, _, _, _, _)
WriteCommands(e, s, log, cmds, called, failAt) ==
    IF cmds = <<>> THEN [err |-> "", inputState |-> s, mutated |-> log]
    ELSE LET w == writeCommand(e, s, log, Head(cmds), failAt = called + 1)
         IN IF w.err # ""
            THEN [err |-> ErrOr(w.err, "Cmd could not mutated"),
                  inputState |-> w.inputState, mutated |-> w.mutated]
            ELSE WriteCommands(e, w.inputState, w.mutated, Tail(cmds), called + 1, failAt)

\* generateMipmapsForImage once the commands are written: b is what
\* getNewCommandBuffer returned, w what the loop over the commands returned
MipmapsReturn(b, w) ==
    [idOk |-> b.idOk, newID |-> b.commandBufferID, err |-> w.err,
     experiment |-> b.experiment, inputState |-> w.inputState, mutated |-> w.mutated]

\* generateMipmapsForImage from the end-command-buffer command on: b is what
\* getNewCommandBuffer returned
EndAndWrite(cmd, log, called, failAt, b) ==
    MipmapsReturn(b,
        WriteCommands(b.experiment, [b.inputState EXCEPT !.built = @ + 1], log,
                      Append(b.cmds,
                             NewCmd(b.inputState, "VkEndCommandBuffer", cmd.thread,
                                    [commandBuffer |-> b.commandBufferID,
                                     result |-> "VK_SUCCESS"])),
                      called, failAt))

\* the part of generateMipmapsForImage that follows the pool check
RecordCommandBuffer(e, cmd, s, log, id, called, failAt) ==
    EndAndWrite(cmd, log, called, failAt,
                getNewCommandBuffer(e, s, cmd.thread, cmd.args.device, e.pool, id))

\* the pool check of generateMipmapsForImage once getNewCommandPool has returned c
StorePool(cmd, poolID, id, failAt, c) ==
    IF c.commandPool = 0 \/ c.err # ""
    THEN [idOk |-> c.idOk, newID |-> poolID,
          err |-> IF c.err = NilFunctionCall THEN NilFunctionCall
                  ELSE "Command Pool could not be created",
          experiment |-> c.experiment, inputState |-> c.inputState, mutated |-> c.mutated]
    ELSE [RecordCommandBuffer([c.experiment EXCEPT !.pool = c.commandPool], cmd,
                              c.inputState, c.mutated, id, 1, failAt)
            EXCEPT !.idOk = @ /\ c.idOk]

\* the pool check of generateMipmapsForImage once getQueue has returned queueObj
CreatePool(e, cmd, s, log, poolID, id, failAt, queueObj) ==
    IF queueObj = NilQueueObject
    THEN [idOk |-> TRUE, newID |-> 0, err |-> "Graphics Queue could not found",
          experiment |-> e, inputState |-> s, mutated |-> log]
    ELSE StorePool(cmd, poolID, id, failAt,
                   getNewCommandPool(e, s, log, cmd.thread, queueObj, poolID, failAt = 1))

\* poolID and id are what newUnusedID returns for the pool and for the command buffer
generateMipmapsForImage(e, cmd, s, log, poolID, id, failAt) ==
    IF e.pool = 0
    THEN CreatePool(e, cmd, s, log, poolID, id, failAt, getQueue(e, cmd, s))
    ELSE RecordCommandBuffer(e, cmd, s, log, id, 0, failAt)

-----------------------------------------------------------------------------
(* gapidapk: starting the device-info service. *)

startServiceAttempts == 3

portListeningAttempts == 5

\* task.Retry after a call of f: it returns when f is done or when this was the last
\* attempt, and waits for the next attempt otherwise
RetryAfter(count, maxAttempts, done) ==
    IF done \/ count + 1 >= maxAttempts THEN "return" ELSE "wait"

devInfoPortListening(outcome) ==
    [listening |-> outcome = "listening",
     err |-> IF outcome = "error" THEN "Getting unix abstract port info" ELSE ""]

\* an inner function that never reports that it is done
PollPort_NeverDone(outcome) ==
    LET r == devInfoPortListening(outcome)
    IN [done |-> FALSE, listening |-> r.listening, err |-> r.err]

\* the function the inner task.Retry calls
PollPort(outcome) ==
    LET r == devInfoPortListening(outcome)
    IN [done |-> r.listening, listening |-> r.listening, err |-> r.err]

\* what startDevInfoService returns when the outer task.Retry has returned
StartReturn(d, err) ==
    [d EXCEPT !.pc = "done",
              !.ret = IF d.listening THEN "" ELSE "Start DevInfo service: Run out of attempts",
              !.err = err]

\* the outer task.Retry after a call of its function
AfterStartAttempt(d, done, err) ==
    IF RetryAfter(d.count, startServiceAttempts, done) = "return"
    THEN StartReturn(d, err)
    ELSE [d EXCEPT !.pc = "startWait", !.count = @ + 1, !.err = err]

DevBegin(hasAction) ==
    [pc |-> "startDevInfoService", hasAction |-> hasAction,
     count |-> 0, pollCount |-> 0, starts |-> 0, polls |-> 0, pollsThisStart |-> 0,
     listening |-> FALSE, sawListening |-> FALSE, err |-> "", ret |-> ""]

\* the steps of startDevInfoService on the state d of one of its runs

\* the lookup of the service action
FindActionOf(d) ==
    IF d.hasAction THEN [d EXCEPT !.pc = "StartService"]
    ELSE [d EXCEPT !.pc = "done", !.ret = "Service intent was not found"]

\* one call of the outer function, up to the start of the service
StartServiceOf(d0, ok) ==
    LET d == [d0 EXCEPT !.starts = @ + 1, !.pollsThisStart = 0, !.pollCount = 0]
    IN IF ok THEN [d EXCEPT !.pc = "devInfoPortListening"]
       ELSE AfterStartAttempt(d, FALSE, "StartService failed")

\* one call of the inner function, and what the two task.Retry do with its result
PortListeningOf(d0, outcome) ==
    LET r == PollPort(outcome)
        d == [d0 EXCEPT !.polls = @ + 1, !.pollsThisStart = @ + 1,
                        !.listening = r.listening,
                        !.sawListening = @ \/ r.listening]
    IN IF RetryAfter(d0.pollCount, portListeningAttempts, r.done) = "return"
       THEN AfterStartAttempt(d, d.listening, r.err)
       ELSE [d EXCEPT !.pc = "pollWait", !.pollCount = @ + 1, !.err = r.err]

\* the second between two polls
PollWaitOf(d) == [d EXCEPT !.pc = "devInfoPortListening"]

\* the 100 milliseconds between two start attempts
StartWaitOf(d) == [d EXCEPT !.pc = "StartService"]

-----------------------------------------------------------------------------
(* gapidapk: fetchDeviceInfo.  fetch.run[p] is the run of fetcher p: the call it
   is at, the calls it has made, its cleanup, its deferred calls and what it
   returned; fetch.locks[serial] is the fetcher that holds the flock mutex of
   the serial, "" when nobody does. *)

\* the two concurrent runs of fetchDeviceInfo
Fetchers == {"first", "second"}

\* the serial of the device every fetcher queries
GetSerial(p) == "serial"

Serials == { GetSerial(p) : p \in Fetchers }

CleanupIds == {"PrepareGpuProfiling", "SetupLayers"}

\* an app.Cleanup is the sequence of the cleanups it runs; the nil cleanup is empty
NilCleanup == <<>>

Then(cleanup, next) == cleanup \o next

\* cleanup.Invoke in the run r
Invoke(r, cleanup) ==
    [r EXCEPT !.invoked =
        [c \in CleanupIds |-> @[c] + Cardinality({ i \in DOMAIN cleanup : cleanup[i] = c })]]

NoFetch == [run |-> <<>>, locks |-> <<>>]

FetchBegin ==
    [pc |-> "EnsureInstalled", called |-> {}, supported |-> FALSE,
     cleanup |-> NilCleanup, obtained |-> {}, invoked |-> [c \in CleanupIds |-> 0],
     deferred |-> <<>>, dev |-> DevBegin(TRUE), ret |-> "", registered |-> FALSE]

Defer(call, cleanup) == [call |-> call, cleanup |-> cleanup]

\* one deferred call of fetcher p
RunCall(f, p, call) ==
    CASE call.call = "cleanup.Invoke" ->
            [f EXCEPT !.run[p] = Invoke(@, call.cleanup)]
      [] call.call = "m.Unlock" ->
            [f EXCEPT !.run[p].called = @ \cup {"Unlock"}, !.locks[GetSerial(p)] = ""]
      [] call.call = "sock.Close" ->
            [f EXCEPT !.run[p].called = @ \cup {"Close"}]

\* the next deferred call of fetcher p: the one deferred last
RunDeferred(f, p) ==
    RunCall([f EXCEPT !.run[p].deferred = SubSeq(@, 1, Len(@) - 1)], p,
            f.run[p].deferred[Len(f.run[p].deferred)])

\* the device-info providers run while the device is being registered: an error
\* of fetchDeviceInfo prevents the device from being registered
Registered(ret) == ret = ""

\* a return statement of fetchDeviceInfo: the result is set, and the deferred calls
\* run before the function returns
Return(f, p, ret) == [f EXCEPT !.run[p].pc = "return", !.run[p].ret = ret]

\* fetchDeviceInfo has returned to its caller, which registers the device or not
Returns(f, p) ==
    [f EXCEPT !.run[p].pc = "done", !.run[p].registered = Registered(f.run[p].ret)]

\* EnsureInstalled that reports a missing gapid.apk to the caller
EnsureInstalledOf_ReturnErr(f, p, found) ==
    IF ~found
    THEN Return([f EXCEPT !.run[p].called = @ \cup {"EnsureInstalled"}], p,
                "Couldn't find gapid.apk for device")
    ELSE [f EXCEPT !.run[p].called = @ \cup {"EnsureInstalled"}, !.run[p].pc = "apk.Stop"]

\* EnsureInstalled has returned the apk, or the error of a missing apk
EnsureInstalledOf(f, p, found) ==
    IF ~found
    THEN Return([f EXCEPT !.run[p].called = @ \cup {"EnsureInstalled"}], p, "")
    ELSE [f EXCEPT !.run[p].called = @ \cup {"EnsureInstalled"}, !.run[p].pc = "apk.Stop"]

\* apk.Stop has returned; what it returns is not looked at
StopOf(f, p) ==
    [f EXCEPT !.run[p].called = @ \cup {"Stop"}, !.run[p].pc = "PrepareGpuProfiling"]

\* the set of cleanups a returned cleanup stands for
Obtained(next) == { next[i] : i \in DOMAIN next }

\* PrepareGpuProfiling has returned (supported, next, err)
PrepareGpuProfilingOf(f, p, supported, next, err) ==
    LET g == [f EXCEPT !.run[p].called = @ \cup {"PrepareGpuProfiling"},
                       !.run[p].supported = supported,
                       !.run[p].obtained = @ \cup Obtained(next),
                       !.run[p].cleanup = Then(@, next)]
    IN [g EXCEPT !.run[p].pc = IF err THEN "cleanup.Invoke"
                               ELSE IF supported THEN "SetupLayers" ELSE "flock.Lock"]

\* the error branch of PrepareGpuProfiling: the cleanup is invoked, the error returned
InvokeCleanupOf(f, p) ==
    Return([f EXCEPT !.run[p] = Invoke(@, f.run[p].cleanup)], p, "PrepareGpuProfiling failed")

\* the branch of a device that supports GPU profiling: SetupLayers has returned
\* (next, err), its cleanup is chained and the Invoke of the chain deferred; the
\* perfetto producer is launched from API version 29 on
SetupLayersOf(f, p, next, err, apiVersion) ==
    LET g == [f EXCEPT !.run[p].called = @ \cup {"SetupLayers"},
                       !.run[p].obtained = @ \cup Obtained(next),
                       !.run[p].cleanup = Then(@, next),
                       !.run[p].deferred =
                           Append(@, Defer("cleanup.Invoke", Then(f.run[p].cleanup, next)))]
    IN IF err THEN Return(g, p, "SetupLayers failed")
       ELSE [g EXCEPT !.run[p].pc = IF apiVersion >= 29
                                    THEN "EnsurePerfettoProducerLaunched"
                                    ELSE "flock.Lock"]

\* EnsurePerfettoProducerLaunched has returned
EnsurePerfettoProducerLaunchedOf(f, p, err) ==
    LET g == [f EXCEPT !.run[p].called = @ \cup {"EnsurePerfettoProducerLaunched"}]
    IN IF err THEN Return(g, p, "EnsurePerfettoProducerLaunched failed")
       ELSE [g EXCEPT !.run[p].pc = "flock.Lock"]

\* flock.Lock returns once nobody holds the mutex of the serial
Lockable(f, serial) == f.locks[serial] = ""

\* a fetch that takes the lock and never gives it back
LockOf_NoUnlock(f, p, hasAction) ==
    [f EXCEPT !.locks[GetSerial(p)] = p,
              !.run[p].called = @ \cup {"Lock"},
              !.run[p].dev = DevBegin(hasAction),
              !.run[p].pc = "startDevInfoService"]

\* flock.Lock has returned the locked mutex m, and m.Unlock is deferred
LockOf(f, p, hasAction) ==
    [f EXCEPT !.locks[GetSerial(p)] = p,
              !.run[p].called = @ \cup {"Lock"},
              !.run[p].deferred = Append(@, Defer("m.Unlock", NilCleanup)),
              !.run[p].dev = DevBegin(hasAction),
              !.run[p].pc = "startDevInfoService"]

\* what is left of a run of startDevInfoService once it has returned: its result
\* and whether a poll saw the port listening
ServiceResult(d) ==
    [DevBegin(d.hasAction) EXCEPT !.pc = "done", !.ret = d.ret,
                                  !.sawListening = d.sawListening]

\* a run of startDevInfoService without the counts of the starts and polls it has
\* made so far, which the function does not keep
NoHistory(d) == [d EXCEPT !.starts = 0, !.polls = 0, !.pollsThisStart = 0]

\* startDevInfoService has made a step to d; when it has returned, fetchDeviceInfo
\* goes on with the connection or returns the error
AfterService(f, p, d) ==
    LET g == [f EXCEPT !.run[p].called = @ \cup {"startDevInfoService"},
                       !.run[p].dev = IF d.pc = "done" THEN ServiceResult(d)
                                      ELSE NoHistory(d)]
    IN IF d.pc # "done" THEN g
       ELSE IF d.ret # "" THEN Return(g, p, "Starting service")
       ELSE [g EXCEPT !.run[p].pc = "ForwardAndConnect"]

\* adb.ForwardAndConnect has returned a socket or an error
ForwardAndConnectOf(f, p, ok) ==
    LET g == [f EXCEPT !.run[p].called = @ \cup {"ForwardAndConnect"}]
    IN IF ~ok THEN Return(g, p, "Connecting to service port")
       ELSE [g EXCEPT !.run[p].deferred = Append(@, Defer("sock.Close", NilCleanup)),
                      !.run[p].pc = "ReadAll"]

\* ioutil.ReadAll has returned the data or an error
ReadAllOf(f, p, ok) ==
    LET g == [f EXCEPT !.run[p].called = @ \cup {"ReadAll"}]
    IN IF ~ok THEN Return(g, p, "Reading data")
       ELSE [g EXCEPT !.run[p].pc = "UnmarshalMerge"]

\* proto.UnmarshalMerge has returned
UnmarshalMergeOf(f, p, ok) ==
    Return([f EXCEPT !.run[p].called = @ \cup {"UnmarshalMerge"}], p,
           IF ok THEN "" ELSE "Unmarshalling device Instance")

-----------------------------------------------------------------------------
(* The pipeline driver and the session. *)

NoHelperCall ==
    [fn |-> "none", err |-> "", newID |-> 0, failAt |-> 0, calls |-> 0, cmds |-> <<>>]

NewState ==
    [pool |-> EmptyPool, allocator |-> {}, built |-> 0,
     commandPools |-> {}, commandBuffers |-> {}, recording |-> {}]

Init ==
    /\ experiment \in { newTextureExperimentsTransform(d, g) : d \in BOOLEAN, g \in BOOLEAN }
    /\ inputState = NewState
    /\ pass = "Idle"
    /\ ingested = 0
    /\ consumed = <<>>
    /\ outputCmds = <<>>
    /\ lastIn = <<>>
    /\ lastOut = <<>>
    /\ lastErr = ""
    /\ passStart = [experiment |-> experiment, inputState |-> inputState]
    /\ mutated = <<>>
    /\ helperRet = NoHelperCall
    /\ dev = DevBegin(TRUE)
    /\ fetch = NoFetch

\* BeginTransform that goes on with the tracker it has
BeginTransform_KeepTracker ==
    /\ pass = "Idle"
    /\ experiment' = experiment
    /\ pass' = "Active"
    /\ consumed' = <<>>
    /\ outputCmds' = <<>>
    /\ lastIn' = <<>>
    /\ lastOut' = <<>>
    /\ lastErr' = ""
    /\ passStart' = [experiment |-> experiment', inputState |-> inputState]
    /\ UNCHANGED <<inputState, ingested, mutated, helperRet, dev, fetch>>

BeginTransform ==
    /\ pass = "Idle"
    /\ experiment' = [experiment EXCEPT !.allocations = NewAllocationTracker(inputState)]
    /\ pass' = "Active"
    /\ consumed' = <<>>
    /\ outputCmds' = <<>>
    /\ lastIn' = <<>>
    /\ lastOut' = <<>>
    /\ lastErr' = ""
    /\ passStart' = [experiment |-> experiment', inputState |-> inputState]
    /\ UNCHANGED <<inputState, ingested, mutated, helperRet, dev, fetch>>

TransformCommand ==
    /\ pass = "Active"
    /\ lastErr = ""
    /\ \E batch \in Batches :
         /\ ingested + Len(batch) <= MaxCmds
         /\ LET inputCommands == Ingest(batch, ingested)
                r == TransformCommandResult(experiment, inputCommands, inputState)
            IN /\ experiment' = r.experiment
               /\ inputState' = r.inputState
               /\ lastIn' = inputCommands
               /\ lastOut' = r.outputCmds
               /\ lastErr' = r.err
               /\ consumed' = consumed \o inputCommands
               /\ outputCmds' = outputCmds \o r.outputCmds
               /\ ingested' = ingested + Len(batch)
    /\ UNCHANGED <<pass, passStart, mutated, helperRet, dev, fetch>>

EndTransform ==
    /\ pass = "Active"
    /\ lastErr = ""
    /\ pass' = "Draining"
    /\ UNCHANGED <<experiment, inputState, ingested, consumed, outputCmds,
                   lastIn, lastOut, lastErr, passStart, mutated, helperRet, dev, fetch>>

\* ClearTransformResources that leaves the tracked ranges reserved
ClearTransformResources_NoFree ==
    /\ pass \in {"Active", "Draining"}
    /\ pass' = "Idle"
    /\ UNCHANGED <<experiment, inputState, ingested, consumed, outputCmds,
                   lastIn, lastOut, lastErr, passStart, mutated, helperRet, dev, fetch>>

\* the driver calls it when the pass has drained and when the pass is aborted; the
\* tracker it leaves behind either lists nothing or still lists the freed ranges
ClearTransformResources ==
    /\ pass \in {"Active", "Draining"}
    /\ LET r == FreeAllocations(experiment, inputState)
       IN /\ experiment' \in {r.experiment, experiment}
          /\ inputState' = r.inputState
    /\ pass' = "Idle"
    /\ UNCHANGED <<ingested, consumed, outputCmds, lastIn, lastOut, lastErr, passStart,
                   mutated, helperRet, dev, fetch>>

\* no call has panicked
Running == helperRet.err # NilFunctionCall

SetInnerStateMutationFunction ==
    /\ Running
    /\ experiment.stateMutator = "nil"
    /\ experiment' = SetMutator(experiment, "bound")
    /\ UNCHANGED <<inputState, pass, ingested, consumed, outputCmds, lastIn, lastOut,
                   lastErr, passStart, mutated, helperRet, dev, fetch>>

\* the driver sets the mutator between passes
SetMutatorWhenIdle == pass = "Idle" /\ SetInnerStateMutationFunction

Next ==
    \/ SetMutatorWhenIdle
    \/ BeginTransform
    \/ TransformCommand
    \/ EndTransform
    \/ ClearTransformResources

Spec == Init /\ [][Next]_vars

-----------------------------------------------------------------------------
(* The helper-synthesis functions, each called on its own within a pass, on the    *)
(* transform as its constructor leaves it: no command pool stored and no state    *)
(* mutator set. A call that panics ends the run.                                  *)

ImageCmds == { [c EXCEPT !.ref = <<"capture", 1>>] :
                 c \in { CreateCmd("VkCreateImage", 2, 9, i) : i \in ImageInfos } }

HelperInit ==
    /\ experiment = newTextureExperimentsTransform(FALSE, TRUE)
    /\ \E pools \in {{}, {2}} :
         inputState = [NewState EXCEPT !.commandPools = pools, !.commandBuffers = {1}]
    /\ pass = "Active"
    /\ ingested = 0
    /\ consumed = <<>>
    /\ outputCmds = <<>>
    /\ lastIn = <<>>
    /\ lastOut = <<>>
    /\ lastErr = ""
    /\ passStart = [experiment |-> experiment, inputState |-> inputState]
    /\ mutated = <<>>
    /\ helperRet = NoHelperCall
    /\ dev = DevBegin(TRUE)
    /\ fetch = NoFetch

GetNewCommandPool ==
    /\ Running
    /\ helperRet.calls < MaxHelperCalls
    /\ \E id \in Handles, fails \in BOOLEAN, queue \in Queues :
         LET r == getNewCommandPool(experiment, inputState, mutated, 1, queue, id, fails)
         IN /\ r.idOk
            /\ experiment' = r.experiment
            /\ inputState' = r.inputState
            /\ mutated' = r.mutated
            /\ helperRet' = [fn |-> "getNewCommandPool", err |-> r.err, newID |-> id,
                             failAt |-> IF fails THEN 1 ELSE 0,
                             calls |-> helperRet.calls + 1, cmds |-> <<>>]
    /\ UNCHANGED <<pass, ingested, consumed, outputCmds, lastIn, lastOut, lastErr,
                   passStart, dev, fetch>>

\* the commands returned are kept in helperRet.cmds
GetNewCommandBuffer ==
    /\ Running
    /\ helperRet.calls < MaxHelperCalls
    /\ \E id \in Handles, commandPool \in Handles :
         LET r == getNewCommandBuffer(experiment, inputState, 1, 1, commandPool, id)
         IN /\ r.idOk
            /\ experiment' = r.experiment
            /\ inputState' = r.inputState
            /\ helperRet' = [fn |-> "getNewCommandBuffer", err |-> "", newID |-> id,
                             failAt |-> 0, calls |-> helperRet.calls + 1,
                             cmds |-> r.cmds]
    /\ UNCHANGED <<pass, ingested, consumed, outputCmds, lastIn, lastOut, lastErr,
                   passStart, mutated, dev, fetch>>

\* writeCommand called with the first of the commands getNewCommandBuffer returned
WriteCommand ==
    /\ Running
    /\ helperRet.cmds # <<>>
    /\ \E fails \in BOOLEAN :
         LET w == writeCommand(experiment, inputState, mutated, Head(helperRet.cmds), fails)
         IN /\ inputState' = w.inputState
            /\ mutated' = w.mutated
            /\ helperRet' = [helperRet EXCEPT !.fn = "writeCommand", !.err = w.err,
                                              !.failAt = IF fails THEN 1 ELSE 0,
                                              !.cmds = Tail(@)]
    /\ UNCHANGED <<experiment, pass, ingested, consumed, outputCmds, lastIn, lastOut,
                   lastErr, passStart, dev, fetch>>

GenerateMipmapsForImage ==
    /\ Running
    /\ helperRet.calls < MaxHelperCalls
    /\ \E cmd \in ImageCmds, poolID \in Handles, id \in Handles, failAt \in 0..3 :
         LET r == generateMipmapsForImage(experiment, cmd, inputState, mutated,
                                          poolID, id, failAt)
         IN /\ r.idOk
            /\ experiment' = r.experiment
            /\ inputState' = r.inputState
            /\ mutated' = r.mutated
            /\ helperRet' = [fn |-> "generateMipmapsForImage", err |-> r.err,
                             newID |-> r.newID, failAt |-> failAt,
                             calls |-> helperRet.calls + 1, cmds |-> <<>>]
    /\ UNCHANGED <<pass, ingested, consumed, outputCmds, lastIn, lastOut, lastErr,
                   passStart, dev, fetch>>

HelperNext ==
    \/ SetInnerStateMutationFunction
    \/ GetNewCommandPool
    \/ GetNewCommandBuffer
    \/ WriteCommand
    \/ GenerateMipmapsForImage

SpecHelper == HelperInit /\ [][HelperNext]_vars

-----------------------------------------------------------------------------
(* startDevInfoService, one step per call it makes and per wait. *)

transformVars == <<experiment, inputState, pass, ingested, consumed, outputCmds,
                   lastIn, lastOut, lastErr, passStart, mutated, helperRet, fetch>>

DevInit ==
    /\ experiment = newTextureExperimentsTransform(FALSE, FALSE)
    /\ inputState = NewState
    /\ pass = "Idle"
    /\ ingested = 0
    /\ consumed = <<>>
    /\ outputCmds = <<>>
    /\ lastIn = <<>>
    /\ lastOut = <<>>
    /\ lastErr = ""
    /\ passStart = [experiment |-> experiment, inputState |-> inputState]
    /\ mutated = <<>>
    /\ helperRet = NoHelperCall
    /\ dev \in { DevBegin(a) : a \in BOOLEAN }
    /\ fetch = NoFetch

\* the lookup of the service action
FindAction ==
    /\ dev.pc = "startDevInfoService"
    /\ dev' = FindActionOf(dev)
    /\ UNCHANGED transformVars

\* one call of the outer function, up to the start of the service
StartService ==
    /\ dev.pc = "StartService"
    /\ \E ok \in BOOLEAN : dev' = StartServiceOf(dev, ok)
    /\ UNCHANGED transformVars

\* one call of the inner function, and what the two task.Retry do with its result
PortListening ==
    /\ dev.pc = "devInfoPortListening"
    /\ \E outcome \in {"listening", "closed", "error"} : dev' = PortListeningOf(dev, outcome)
    /\ UNCHANGED transformVars

\* the second between two polls
PollWait ==
    /\ dev.pc = "pollWait"
    /\ dev' = PollWaitOf(dev)
    /\ UNCHANGED transformVars

\* the 100 milliseconds between two start attempts
StartWait ==
    /\ dev.pc = "startWait"
    /\ dev' = StartWaitOf(dev)
    /\ UNCHANGED transformVars

DevNext ==
    \/ FindAction
    \/ StartService
    \/ PortListening
    \/ PollWait
    \/ StartWait

\* the calls return and the waits end: every step that can be taken is taken
SpecDevInfo == DevInit /\ [][DevNext]_vars /\ WF_vars(DevNext)

-----------------------------------------------------------------------------
(* fetchDeviceInfo, run by every fetcher for the same device: one step per call
   that can block or fail. *)

fetchRest == <<experiment, inputState, pass, ingested, consumed, outputCmds,
               lastIn, lastOut, lastErr, passStart, mutated, helperRet, dev>>

FetchInit ==
    /\ experiment = newTextureExperimentsTransform(FALSE, FALSE)
    /\ inputState = NewState
    /\ pass = "Idle"
    /\ ingested = 0
    /\ consumed = <<>>
    /\ outputCmds = <<>>
    /\ lastIn = <<>>
    /\ lastOut = <<>>
    /\ lastErr = ""
    /\ passStart = [experiment |-> experiment, inputState |-> inputState]
    /\ mutated = <<>>
    /\ helperRet = NoHelperCall
    /\ dev = DevBegin(TRUE)
    /\ fetch = [run |-> [p \in Fetchers |-> FetchBegin], locks |-> [s \in Serials |-> ""]]

FetchEnsureInstalled(p) ==
    /\ fetch.run[p].pc = "EnsureInstalled"
    /\ \E found \in BOOLEAN : fetch' = EnsureInstalledOf(fetch, p, found)
    /\ UNCHANGED fetchRest

FetchStop(p) ==
    /\ fetch.run[p].pc = "apk.Stop"
    /\ fetch' = StopOf(fetch, p)
    /\ UNCHANGED fetchRest

FetchPrepareGpuProfiling(p) ==
    /\ fetch.run[p].pc = "PrepareGpuProfiling"
    /\ \E supported \in BOOLEAN, err \in BOOLEAN,
          next \in {NilCleanup, <<"PrepareGpuProfiling">>} :
         fetch' = PrepareGpuProfilingOf(fetch, p, supported, next, err)
    /\ UNCHANGED fetchRest

FetchSetupLayers(p) ==
    /\ fetch.run[p].pc = "SetupLayers"
    /\ \E err \in BOOLEAN, next \in {NilCleanup, <<"SetupLayers">>},
          apiVersion \in {28, 29} :
         fetch' = SetupLayersOf(fetch, p, next, err, apiVersion)
    /\ UNCHANGED fetchRest

FetchEnsurePerfettoProducerLaunched(p) ==
    /\ fetch.run[p].pc = "EnsurePerfettoProducerLaunched"
    /\ \E err \in BOOLEAN : fetch' = EnsurePerfettoProducerLaunchedOf(fetch, p, err)
    /\ UNCHANGED fetchRest

FetchLock(p) ==
    /\ fetch.run[p].pc = "flock.Lock"
    /\ Lockable(fetch, GetSerial(p))
    /\ \E hasAction \in BOOLEAN : fetch' = LockOf(fetch, p, hasAction)
    /\ UNCHANGED fetchRest

FetchFindAction(p) ==
    /\ fetch.run[p].pc = "startDevInfoService"
    /\ fetch.run[p].dev.pc = "startDevInfoService"
    /\ fetch' = AfterService(fetch, p, FindActionOf(fetch.run[p].dev))
    /\ UNCHANGED fetchRest

FetchStartService(p) ==
    /\ fetch.run[p].pc = "startDevInfoService"
    /\ fetch.run[p].dev.pc = "StartService"
    /\ \E ok \in BOOLEAN :
         fetch' = AfterService(fetch, p, StartServiceOf(fetch.run[p].dev, ok))
    /\ UNCHANGED fetchRest

FetchPortListening(p) ==
    /\ fetch.run[p].pc = "startDevInfoService"
    /\ fetch.run[p].dev.pc = "devInfoPortListening"
    /\ \E outcome \in {"listening", "closed", "error"} :
         fetch' = AfterService(fetch, p, PortListeningOf(fetch.run[p].dev, outcome))
    /\ UNCHANGED fetchRest

FetchPollWait(p) ==
    /\ fetch.run[p].pc = "startDevInfoService"
    /\ fetch.run[p].dev.pc = "pollWait"
    /\ fetch' = AfterService(fetch, p, PollWaitOf(fetch.run[p].dev))
    /\ UNCHANGED fetchRest

FetchStartWait(p) ==
    /\ fetch.run[p].pc = "startDevInfoService"
    /\ fetch.run[p].dev.pc = "startWait"
    /\ fetch' = AfterService(fetch, p, StartWaitOf(fetch.run[p].dev))
    /\ UNCHANGED fetchRest

FetchForwardAndConnect(p) ==
    /\ fetch.run[p].pc = "ForwardAndConnect"
    /\ \E ok \in BOOLEAN : fetch' = ForwardAndConnectOf(fetch, p, ok)
    /\ UNCHANGED fetchRest

FetchReadAll(p) ==
    /\ fetch.run[p].pc = "ReadAll"
    /\ \E ok \in BOOLEAN : fetch' = ReadAllOf(fetch, p, ok)
    /\ UNCHANGED fetchRest

FetchUnmarshalMerge(p) ==
    /\ fetch.run[p].pc = "UnmarshalMerge"
    /\ \E ok \in BOOLEAN : fetch' = UnmarshalMergeOf(fetch, p, ok)
    /\ UNCHANGED fetchRest

\* the cleanup.Invoke of the error branch of PrepareGpuProfiling
FetchInvokeCleanup(p) ==
    /\ fetch.run[p].pc = "cleanup.Invoke"
    /\ fetch' = InvokeCleanupOf(fetch, p)
    /\ UNCHANGED fetchRest

\* one deferred call of a fetcher that is at a return statement
FetchDeferred(p) ==
    /\ fetch.run[p].pc = "return"
    /\ fetch.run[p].deferred # <<>>
    /\ fetch' = RunDeferred(fetch, p)
    /\ UNCHANGED fetchRest

\* the return to the caller, once the deferred calls have run
FetchReturn(p) ==
    /\ fetch.run[p].pc = "return"
    /\ fetch.run[p].deferred = <<>>
    /\ fetch' = Returns(fetch, p)
    /\ UNCHANGED fetchRest

\* the steps of fetcher p
FetchStep(p) ==
    \/ FetchEnsureInstalled(p)
    \/ FetchStop(p)
    \/ FetchPrepareGpuProfiling(p)
    \/ FetchSetupLayers(p)
    \/ FetchEnsurePerfettoProducerLaunched(p)
    \/ FetchLock(p)
    \/ FetchFindAction(p)
    \/ FetchStartService(p)
    \/ FetchPortListening(p)
    \/ FetchPollWait(p)
    \/ FetchStartWait(p)
    \/ FetchForwardAndConnect(p)
    \/ FetchReadAll(p)
    \/ FetchUnmarshalMerge(p)
    \/ FetchInvokeCleanup(p)
    \/ FetchDeferred(p)
    \/ FetchReturn(p)

FetchNext == \E p \in Fetchers : FetchStep(p)

\* every call of a fetcher returns, and a fetcher that can go on does
SpecFetch == FetchInit /\ [][FetchNext]_vars /\ \A p \in Fetchers : WF_vars(FetchStep(p))

-----------------------------------------------------------------------------
(* Reading the claims off a state. *)

\* the value a command's pointer argument refers to, as the command observes it
ReadAt(cmd, ptr) ==
    cmd.reads[CHOOSE i \in 1..Len(cmd.reads) : cmd.reads[i].base = ptr].data

CreateInfoOf(cmd) == ReadAt(cmd, cmd.args.pCreateInfo)

BarriersOf(cmd) == ReadAt(cmd, cmd.args.pImageMemoryBarriers).elems

IsBuilt(cmd) == cmd.ref[1] = "built"

IsDefaultRange(r) == r.baseMipLevel = 0 /\ r.levelCount = 0

\* positions of the latest batch that hold a command of the given kind
LastOfKind(kind) == { i \in DOMAIN lastIn : lastIn[i].kind = kind }

\* an input is answered by a built command of the same kind
Replaced(i) ==
    /\ i \in DOMAIN lastOut
    /\ IsBuilt(lastOut[i])
    /\ lastOut[i].kind = lastIn[i].kind

\* an input is answered by itself
PassedThrough(i) == i \in DOMAIN lastOut /\ lastOut[i] = lastIn[i]

-----------------------------------------------------------------------------
\* C1: a sampler-create with anisotropyEnable=true, maxAnisotropy=16 and
\* unnormalizedCoordinates=false, transformed under {disableAF, generateMipmaps},
\* comes out as a sampler-create with anisotropyEnable=false, maxAnisotropy=0,
\* mipmapMode=NEAREST, minLod=0, maxLod=100, minFilter=NEAREST, magFilter=NEAREST.
C1_Case(i) ==
    /\ experiment.disableAF /\ experiment.generateMipmaps
    /\ lastIn[i].kind = "VkCreateSampler"
    /\ CreateInfoOf(lastIn[i]).anisotropyEnable = 1
    /\ CreateInfoOf(lastIn[i]).maxAnisotropy = 16
    /\ CreateInfoOf(lastIn[i]).unnormalizedCoordinates = 0

C1_SamplerScenario ==
    \A i \in DOMAIN lastIn :
        C1_Case(i) =>
            /\ i \in DOMAIN lastOut
            /\ lastOut[i].kind = "VkCreateSampler"
            /\ LET out == CreateInfoOf(lastOut[i])
               IN /\ out.anisotropyEnable = 0
                  /\ out.maxAnisotropy = 0
                  /\ out.mipmapMode = "NEAREST"
                  /\ out.minLod = 0
                  /\ out.maxLod = 100
                  /\ out.minFilter = "NEAREST"
                  /\ out.magFilter = "NEAREST"

C1_Witness == \E i \in DOMAIN lastIn : C1_Case(i) /\ Replaced(i)

-----------------------------------------------------------------------------
\* a step of TransformCommand: a batch was taken from the capture
TransformStep == ingested' # ingested

\* the step made no allocation: tracker and allocator are what they were
NoAllocation ==
    /\ experiment'.allocations = experiment.allocations
    /\ inputState'.allocator = inputState.allocator

-----------------------------------------------------------------------------
\* C2 (as stated): with disableAF active, a sampler-create with anisotropy enabled
\* comes out with anisotropy disabled and max-anisotropy 0, and one with
\* anisotropy already disabled comes out as the input command itself.
C2_Original ==
    \A i \in LastOfKind("VkCreateSampler") :
        experiment.disableAF =>
            /\ i \in DOMAIN lastOut
            /\ CreateInfoOf(lastIn[i]).anisotropyEnable # 0 =>
                   /\ CreateInfoOf(lastOut[i]).anisotropyEnable = 0
                   /\ CreateInfoOf(lastOut[i]).maxAnisotropy = 0
            /\ CreateInfoOf(lastIn[i]).anisotropyEnable = 0 => PassedThrough(i)

\* C2 (amended): with disableAF active, a sampler-create with anisotropy enabled
\* comes out with anisotropy disabled and max-anisotropy 0; one with anisotropy
\* already disabled comes out as a newly built sampler-create whose anisotropy
\* fields are the input's, and whose whole create info is the input's when
\* generateMipmaps is inactive.
C2_AnisotropyDisabled ==
    \A i \in LastOfKind("VkCreateSampler") :
        experiment.disableAF =>
            /\ Replaced(i)
            /\ CreateInfoOf(lastIn[i]).anisotropyEnable # 0 =>
                   /\ CreateInfoOf(lastOut[i]).anisotropyEnable = 0
                   /\ CreateInfoOf(lastOut[i]).maxAnisotropy = 0
            /\ CreateInfoOf(lastIn[i]).anisotropyEnable = 0 =>
                   /\ CreateInfoOf(lastOut[i]).anisotropyEnable = 0
                   /\ CreateInfoOf(lastOut[i]).maxAnisotropy =
                          CreateInfoOf(lastIn[i]).maxAnisotropy
                   /\ ~experiment.generateMipmaps =>
                          CreateInfoOf(lastOut[i]) = CreateInfoOf(lastIn[i])

C2_Witness ==
    /\ experiment.disableAF
    /\ \E i \in LastOfKind("VkCreateSampler") :
           /\ CreateInfoOf(lastIn[i]).anisotropyEnable = 0
           /\ Replaced(i)
    /\ \E i \in LastOfKind("VkCreateSampler") :
           /\ CreateInfoOf(lastIn[i]).anisotropyEnable # 0
           /\ Replaced(i)

-----------------------------------------------------------------------------
\* C3: with generateMipmaps active, an image-create with mip-level count 0 comes
\* out with mip-level count 100 and every other create-info field as in the
\* input; one with mip-level count above 0 comes out as the input command itself,
\* and no allocation is made for it.
C3_Expected(i) ==
    IF CreateInfoOf(lastIn[i]).mipLevels = 0
    THEN /\ Replaced(i)
         /\ CreateInfoOf(lastOut[i]) = [CreateInfoOf(lastIn[i]) EXCEPT !.mipLevels = 100]
    ELSE PassedThrough(i)

C3_ImageMipLevels ==
    [][ (TransformStep /\ experiment.generateMipmaps) =>
          /\ \A i \in LastOfKind("VkCreateImage")' : C3_Expected(i)'
          /\ (\A i \in DOMAIN lastIn' :
                  /\ lastIn'[i].kind = "VkCreateImage"
                  /\ CreateInfoOf(lastIn'[i]).mipLevels > 0) => NoAllocation ]_vars

C3_Witness ==
    /\ experiment.generateMipmaps
    /\ \E i \in LastOfKind("VkCreateImage") :
           /\ CreateInfoOf(lastIn[i]).mipLevels = 0
           /\ Replaced(i)
           /\ CreateInfoOf(lastOut[i]).mipLevels = 100
    /\ \E i \in LastOfKind("VkCreateImage") :
           /\ CreateInfoOf(lastIn[i]).mipLevels > 0
           /\ PassedThrough(i)

-----------------------------------------------------------------------------
\* C4: with generateMipmaps active, an image-view-create whose sub-range has base
\* level 0 and level count 0 comes out with base level 0 and level count 100; one
\* with a non-zero base level or level count comes out as the input command itself.
C4_ImageViewRange ==
    \A i \in LastOfKind("VkCreateImageView") :
        experiment.generateMipmaps =>
            IF IsDefaultRange(CreateInfoOf(lastIn[i]).subresourceRange)
            THEN /\ Replaced(i)
                 /\ CreateInfoOf(lastOut[i]).subresourceRange.baseMipLevel = 0
                 /\ CreateInfoOf(lastOut[i]).subresourceRange.levelCount = 100
            ELSE PassedThrough(i)

C4_Witness ==
    /\ experiment.generateMipmaps
    /\ \E i \in LastOfKind("VkCreateImageView") :
           /\ IsDefaultRange(CreateInfoOf(lastIn[i]).subresourceRange)
           /\ Replaced(i)
    /\ \E i \in LastOfKind("VkCreateImageView") :
           /\ CreateInfoOf(lastIn[i]).subresourceRange.levelCount # 0
           /\ PassedThrough(i)

-----------------------------------------------------------------------------
\* C5: with generateMipmaps active, every image-memory barrier of a pipeline
\* barrier is decided on its own: one with base level 0 and level count 0 is
\* answered by a copy with base level 0 and level count 100, one with any other
\* sub-range appears in the output equal to the input barrier, whatever the other
\* barriers of the command are.
C5_Expected(barrier) ==
    IF IsDefaultRange(barrier.subresourceRange)
    THEN [barrier EXCEPT !.subresourceRange.baseMipLevel = 0,
                         !.subresourceRange.levelCount = 100]
    ELSE barrier

C5_BarriersIndependent ==
    \A i \in LastOfKind("VkCmdPipelineBarrier") :
        (experiment.generateMipmaps /\ lastIn[i].args.imageMemoryBarrierCount > 0) =>
            /\ i \in DOMAIN lastOut
            /\ lastOut[i].kind = "VkCmdPipelineBarrier"
            /\ Len(BarriersOf(lastOut[i])) = Len(BarriersOf(lastIn[i]))
            /\ \A j \in 1..Len(BarriersOf(lastIn[i])) :
                   BarriersOf(lastOut[i])[j] = C5_Expected(BarriersOf(lastIn[i])[j])

C5_Witness ==
    /\ experiment.generateMipmaps
    /\ \E i \in LastOfKind("VkCmdPipelineBarrier") :
           /\ Replaced(i)
           /\ \E j, k \in 1..Len(BarriersOf(lastIn[i])) :
                  /\ IsDefaultRange(BarriersOf(lastIn[i])[j].subresourceRange)
                  /\ ~IsDefaultRange(BarriersOf(lastIn[i])[k].subresourceRange)
                  /\ BarriersOf(lastOut[i])[j].subresourceRange.levelCount = 100
                  /\ BarriersOf(lastOut[i])[k] = BarriersOf(lastIn[i])[k]

-----------------------------------------------------------------------------
HasDefaultBarrier(cmd) ==
    /\ cmd.args.imageMemoryBarrierCount > 0
    /\ \E j \in 1..Len(BarriersOf(cmd)) : IsDefaultRange(BarriersOf(cmd)[j].subresourceRange)

\* C6 (as stated): a pipeline barrier is rebuilt only if at least one of its
\* image-memory barriers needed rewriting; with generateMipmaps active and every
\* barrier already carrying a sub-range, the output is the input command itself.
C6_Original ==
    \A i \in LastOfKind("VkCmdPipelineBarrier") :
        /\ i \in DOMAIN lastOut
        /\ lastOut[i] # lastIn[i] => HasDefaultBarrier(lastIn[i])
        /\ (experiment.generateMipmaps /\ ~HasDefaultBarrier(lastIn[i])) => PassedThrough(i)

\* the batch of the step holds pipeline barriers only, all of them fulfilling P
OnlyBarriers(P(_)) ==
    \A i \in DOMAIN lastIn' : lastIn'[i].kind = "VkCmdPipelineBarrier" /\ P(lastIn'[i])

C6_Rebuilt(cmd) == experiment.generateMipmaps /\ cmd.args.imageMemoryBarrierCount > 0

C6_NotRebuilt(cmd) == ~C6_Rebuilt(cmd)

\* C6 (amended): a pipeline barrier is rebuilt whenever generateMipmaps is active
\* and it has at least one image-memory barrier, whether or not a barrier needed
\* rewriting: one scratch allocation is made for it and the new barrier array is
\* written to the application pool at that address.  The output is the input
\* command itself, and no allocation is made, exactly when generateMipmaps is
\* inactive or the command has no image-memory barrier.
C6_BarrierRebuild ==
    [][ TransformStep =>
          /\ \A i \in LastOfKind("VkCmdPipelineBarrier")' :
                 IF C6_Rebuilt(lastIn'[i]) THEN Replaced(i)' ELSE PassedThrough(i)'
          /\ OnlyBarriers(C6_NotRebuilt) =>
                 /\ NoAllocation
                 /\ inputState'.built = inputState.built
          /\ OnlyBarriers(C6_Rebuilt) =>
                 /\ Len(experiment'.allocations) =
                        Len(experiment.allocations) + Len(lastIn')
                 /\ \A i \in DOMAIN lastIn' :
                        LET a == experiment'.allocations[Len(experiment.allocations) + i]
                        IN /\ a.base \notin inputState.allocator
                           /\ lastOut'[i].args.pImageMemoryBarriers = a.base
                           /\ a.base \in DOMAIN inputState'.pool
                           /\ inputState'.pool[a.base] = a.data ]_vars

C6_Witness ==
    /\ experiment.generateMipmaps
    /\ \E i \in LastOfKind("VkCmdPipelineBarrier") :
           /\ lastIn[i].args.imageMemoryBarrierCount > 0
           /\ ~HasDefaultBarrier(lastIn[i])
           /\ Replaced(i)
           /\ BarriersOf(lastOut[i]) = BarriersOf(lastIn[i])
           /\ lastOut[i].args.pImageMemoryBarriers \in DOMAIN inputState.pool

-----------------------------------------------------------------------------
\* C7: the two sampler edits do not depend on each other.  With generateMipmaps
\* active the output has nearest min/mag filters, nearest mipmap mode, and LOD
\* range [0,0] when unnormalized coordinates are set and [0,100] otherwise,
\* whether or not the anisotropy edit applied; the anisotropy fields of the output
\* are what disableAF alone makes of the input's, whether or not generateMipmaps
\* is active.
C7_MipmapFields(info) ==
    <<info.minFilter, info.magFilter, info.mipmapMode, info.minLod, info.maxLod>>

C7_AnisotropyFields(info) == <<info.anisotropyEnable, info.maxAnisotropy>>

C7_EditsIndependent ==
    \A i \in LastOfKind("VkCreateSampler") :
        /\ i \in DOMAIN lastOut
        /\ lastOut[i].kind = "VkCreateSampler"
        /\ LET in == CreateInfoOf(lastIn[i])
               out == CreateInfoOf(lastOut[i])
           IN /\ C7_MipmapFields(out) =
                    IF ~experiment.generateMipmaps THEN C7_MipmapFields(in)
                    ELSE IF in.unnormalizedCoordinates # 0
                         THEN <<"NEAREST", "NEAREST", "NEAREST", 0, 0>>
                         ELSE <<"NEAREST", "NEAREST", "NEAREST", 0, 100>>
              /\ C7_AnisotropyFields(out) =
                    IF experiment.disableAF /\ in.anisotropyEnable # 0
                    THEN <<0, 0>>
                    ELSE C7_AnisotropyFields(in)
              /\ out.unnormalizedCoordinates = in.unnormalizedCoordinates

C7_Witness ==
    /\ experiment.disableAF /\ experiment.generateMipmaps
    /\ \E i \in LastOfKind("VkCreateSampler") :
           /\ CreateInfoOf(lastIn[i]).anisotropyEnable # 0
           /\ CreateInfoOf(lastIn[i]).unnormalizedCoordinates # 0
           /\ Replaced(i)
           /\ CreateInfoOf(lastOut[i]).maxLod = 0
    /\ \E i \in LastOfKind("VkCreateSampler") :
           /\ CreateInfoOf(lastIn[i]).anisotropyEnable = 0
           /\ CreateInfoOf(lastIn[i]).unnormalizedCoordinates = 0
           /\ Replaced(i)
           /\ CreateInfoOf(lastOut[i]).maxLod = 100

-----------------------------------------------------------------------------
TargetedKinds ==
    {"VkCreateSampler", "VkCreateImage", "VkCreateImageView", "VkCmdPipelineBarrier"}

\* C8: a command of any other kind than sampler, image, image-view creation or
\* pipeline barrier comes out as itself under every policy, and a batch of such
\* commands leaves the tracker and the global state as they were.
C8_UnmatchedPassThrough ==
    [][ TransformStep =>
          /\ \A i \in DOMAIN lastIn' :
                 lastIn'[i].kind \notin TargetedKinds => PassedThrough(i)'
          /\ (\A i \in DOMAIN lastIn' : lastIn'[i].kind \notin TargetedKinds) =>
                 /\ experiment' = experiment
                 /\ inputState' = inputState ]_vars

C8_Witness ==
    /\ experiment.disableAF /\ experiment.generateMipmaps
    /\ lastIn # <<>>
    /\ \A i \in DOMAIN lastIn : lastIn[i].kind \notin TargetedKinds
    /\ lastOut = lastIn
    /\ experiment.allocations = <<>>

-----------------------------------------------------------------------------
\* what a replacement keeps of the command it replaces
CarriedOver(in, out) ==
    /\ out.kind = in.kind
    /\ out.thread = in.thread
    /\ IF in.kind = "VkCmdPipelineBarrier"
       THEN [out.args EXCEPT !.pImageMemoryBarriers = in.args.pImageMemoryBarriers] = in.args
       ELSE [out.args EXCEPT !.pCreateInfo = in.args.pCreateInfo] = in.args

\* C9: the batch returned by TransformCommand has one output per input, in the
\* order of the inputs: output i is input i or the command built for input i,
\* and the commands built in one call were built in that order.
C9_OrderPreserved ==
    /\ Len(lastOut) = Len(lastIn)
    /\ Len(outputCmds) = Len(consumed)
    /\ \A i \in DOMAIN lastIn :
           \/ PassedThrough(i)
           \/ Replaced(i) /\ CarriedOver(lastIn[i], lastOut[i])
    /\ \A i, j \in DOMAIN lastOut :
           (i < j /\ IsBuilt(lastOut[i]) /\ IsBuilt(lastOut[j])) =>
               lastOut[i].ref[2] < lastOut[j].ref[2]

C9_Witness ==
    /\ Len(lastIn) = 2
    /\ lastIn[1].kind # lastIn[2].kind
    /\ Replaced(1) /\ Replaced(2)

-----------------------------------------------------------------------------
\* C10: within a pass, however the commands consumed so far were split into
\* batches, the concatenated output, the tracker and the global state are what
\* one TransformCommand call on all of them, made right after BeginTransform,
\* would have produced.
C10_BatchingIrrelevant ==
    pass \in {"Active", "Draining"} =>
        LET r == TransformCommandResult(passStart.experiment, consumed, passStart.inputState)
        IN /\ outputCmds = r.outputCmds
           /\ experiment = r.experiment
           /\ inputState = r.inputState

C10_Witness ==
    /\ pass = "Active"
    /\ Len(consumed) = 2
    /\ Len(lastIn) = 1
    /\ Len(experiment.allocations) = 2

-----------------------------------------------------------------------------
BeginStep == pass = "Idle" /\ pass' = "Active"

\* C11: right after every BeginTransform the tracker holds no allocation, whatever
\* the passes before it allocated and whatever tracker they left behind.
C11_FreshTracker ==
    [][ BeginStep => experiment'.allocations = <<>> ]_vars

\* a pass has begun after a pass that built commands in scratch memory
C11_Witness ==
    /\ pass = "Active"
    /\ consumed = <<>>
    /\ inputState.built > 0
    /\ experiment.allocations = <<>>

-----------------------------------------------------------------------------
ClearStep == pass # "Idle" /\ pass' = "Idle"

\* the scratch ranges reserved since the latest BeginTransform
ReservedInPass == inputState.allocator \ passStart.inputState.allocator

\* C12: ClearTransformResources ends every pass, a drained one and an aborted one:
\* when it returns, every scratch range reserved since the preceding BeginTransform
\* is free again and the pass is Idle, where BeginTransform can be called.
C12_TrackerReleased ==
    /\ [][ ClearStep =>
             /\ ReservedInPass \cap inputState'.allocator = {}
             /\ \A i \in 1..Len(experiment.allocations) :
                    experiment.allocations[i].base \notin inputState'.allocator ]_vars
    /\ [](pass = "Idle" => ENABLED BeginTransform)

\* a pass that reserved scratch ranges has been cleared, and commands are left
C12_Witness ==
    /\ pass = "Idle"
    /\ \E i \in DOMAIN lastOut : IsBuilt(lastOut[i])
    /\ ingested < MaxCmds
    /\ inputState.allocator = {}

-----------------------------------------------------------------------------
(* Reading the helper synthesis off a step. *)

\* a helper-synthesis function was called and has returned
HelperStep == helperRet'.calls # helperRet.calls

\* the commands the state mutator applied during the step
Applied == SubSeq(mutated', Len(mutated) + 1, Len(mutated'))

AllocatedBuffer(cmd) == WrittenAt(cmd, cmd.args.pCommandBuffers).value

CreatedPool(cmd) == WrittenAt(cmd, cmd.args.pCommandPool).value

\* the handles registered for the kind of handle the function asks for
RegistryOf(fn, s) ==
    IF fn = "getNewCommandPool" THEN s.commandPools ELSE s.commandBuffers

\* the handles of that kind the mutator has registered on behalf of the transform
RegisteredBy(fn, log) ==
    IF fn = "getNewCommandPool"
    THEN { CreatedPool(log[k]) : k \in { j \in DOMAIN log : log[j].kind = "VkCreateCommandPool" } }
    ELSE { AllocatedBuffer(log[k]) :
             k \in { j \in DOMAIN log : log[j].kind = "VkAllocateCommandBuffers" } }

\* C13: the handle the id generator returns to getNewCommandBuffer or to
\* getNewCommandPool is not 0 and is not in the registry of its kind when the
\* function is called; so it differs from every handle of that kind that an
\* earlier call obtained and had registered through the state mutator.
C13_UnusedHandle ==
    [][ (HelperStep /\ helperRet'.newID # 0) =>
          /\ helperRet'.newID \notin RegistryOf(helperRet'.fn, inputState)
          /\ helperRet'.newID \notin RegisteredBy(helperRet'.fn, mutated) ]_vars

\* two command buffers were allocated one call after the other, both registered
C13_Witness ==
    \E j, k \in DOMAIN mutated :
        /\ j < k
        /\ mutated[j].kind = "VkAllocateCommandBuffers"
        /\ mutated[k].kind = "VkAllocateCommandBuffers"
        /\ AllocatedBuffer(mutated[j]) # AllocatedBuffer(mutated[k])
        /\ {AllocatedBuffer(mutated[j]), AllocatedBuffer(mutated[k])}
               \subseteq inputState.commandBuffers

-----------------------------------------------------------------------------
GenerateStep == HelperStep /\ helperRet'.fn = "generateMipmapsForImage"

-----------------------------------------------------------------------------
\* the pointer argument a rewrite reads through
DataPtr(cmd) ==
    IF cmd.kind = "VkCmdPipelineBarrier" THEN cmd.args.pImageMemoryBarriers
    ELSE cmd.args.pCreateInfo

\* what the application pool holds at address p: nothing, or one value
AppMemoryAt(s, p) == IF p \in DOMAIN s.pool THEN <<s.pool[p]>> ELSE <<>>

\* C16 as stated: when TransformCommand returns, every input command is what it was
\* before the call (a command of the output that is an input is that input, with
\* its arguments and observations), and the application memory at the pointer of
\* every input holds what it held before the call.
C16_Original ==
    [][ TransformStep =>
          \A i \in DOMAIN lastIn' :
              /\ \A j \in DOMAIN lastOut' :
                     lastOut'[j].ref = lastIn'[i].ref => lastOut'[j] = lastIn'[i]
              /\ AppMemoryAt(inputState', DataPtr(lastIn'[i]))
                     = AppMemoryAt(inputState, DataPtr(lastIn'[i])) ]_vars

\* the first call of a pass got two samplers with the same create-info pointer and
\* different create infos: the pool held nothing at that pointer when the pass
\* began, and now holds the create info of the second sampler
C16_Witness ==
    /\ pass = "Active"
    /\ consumed = lastIn
    /\ Len(lastIn) = 2
    /\ lastIn[1].kind = "VkCreateSampler" /\ lastIn[2].kind = "VkCreateSampler"
    /\ Replaced(1) /\ Replaced(2)
    /\ CreateInfoOf(lastIn[1]) # CreateInfoOf(lastIn[2])
    /\ AppMemoryAt(passStart.inputState, DataPtr(lastIn[1])) = <<>>
    /\ AppMemoryAt(inputState, DataPtr(lastIn[1])) = <<CreateInfoOf(lastIn[2])>>

-----------------------------------------------------------------------------
CreateKinds == {"VkCreateSampler", "VkCreateImage", "VkCreateImageView"}

\* C17: a replacement built for a sampler, image or image-view creation has one
\* read observation, the allocation that TransformCommand made in the tracker for
\* the new create info (its range is reserved and its pointer argument points to
\* it), and it has the write observations of the original: the same, in the same
\* order.
C17_Observations ==
    [][ TransformStep =>
          \A i \in DOMAIN lastIn' :
              (lastIn'[i].kind \in CreateKinds /\ Replaced(i)') =>
                  /\ \E k \in DOMAIN experiment'.allocations :
                         /\ k > Len(experiment.allocations)
                         /\ lastOut'[i].reads = <<experiment'.allocations[k]>>
                         /\ lastOut'[i].args.pCreateInfo = experiment'.allocations[k].base
                         /\ experiment'.allocations[k].base \in inputState'.allocator
                         /\ experiment'.allocations[k].data = CreateInfoOf(lastOut'[i])
                  /\ lastOut'[i].writes = lastIn'[i].writes ]_vars

\* an image and an image view were replaced in one call, each with its two writes
C17_Witness ==
    /\ pass = "Active"
    /\ Len(lastIn) = 2
    /\ lastIn[1].kind = "VkCreateImage" /\ lastIn[2].kind = "VkCreateImageView"
    /\ Replaced(1) /\ Replaced(2)
    /\ Len(lastOut[1].writes) = 2 /\ Len(lastOut[2].writes) = 2
    /\ lastOut[2].reads = <<experiment.allocations[2]>>

-----------------------------------------------------------------------------
\* the registry part of the global state
Registry(s) == <<s.commandPools, s.commandBuffers, s.recording>>

\* the rewrite of the command's kind goes past its policy check
PolicyActive(e, cmd) ==
    \/ cmd.kind = "VkCreateSampler" /\ (e.generateMipmaps \/ e.disableAF)
    \/ cmd.kind \in {"VkCreateImage", "VkCreateImageView", "VkCmdPipelineBarrier"}
          /\ e.generateMipmaps

ReadBases(cmd) == { cmd.reads[k].base : k \in DOMAIN cmd.reads }

\* C18 as stated: no step of TransformCommand writes the application pool or the
\* registry.
C18_Original ==
    [][ TransformStep =>
          /\ inputState'.pool = inputState.pool
          /\ Registry(inputState') = Registry(inputState) ]_vars

\* C18: TransformCommand never calls the state mutator and never changes the
\* registry, but it writes the application pool itself: the read observations of
\* every input whose rewrite goes past its policy check are written into the pool,
\* and the array of a rebuilt pipeline barrier is written at its scratch address;
\* the pool changes nowhere else.
C18_DirectPoolWrites ==
    [][ TransformStep =>
          /\ mutated' = mutated
          /\ Registry(inputState') = Registry(inputState)
          /\ DOMAIN inputState.pool \subseteq DOMAIN inputState'.pool
          /\ \A i \in DOMAIN lastIn' :
                /\ PolicyActive(experiment, lastIn'[i]) =>
                      ReadBases(lastIn'[i]) \subseteq DOMAIN inputState'.pool
                /\ (lastIn'[i].kind = "VkCmdPipelineBarrier" /\ Replaced(i)') =>
                      /\ DataPtr(lastOut'[i]) \in DOMAIN inputState'.pool
                      /\ inputState'.pool[DataPtr(lastOut'[i])].elems = BarriersOf(lastOut'[i])
          /\ \A a \in DOMAIN inputState'.pool :
                \/ a \in DOMAIN inputState.pool /\ inputState'.pool[a] = inputState.pool[a]
                \/ \E i \in DOMAIN lastIn' :
                      \/ PolicyActive(experiment, lastIn'[i]) /\ a \in ReadBases(lastIn'[i])
                      \/ /\ lastIn'[i].kind = "VkCmdPipelineBarrier"
                         /\ Replaced(i)'
                         /\ a = DataPtr(lastOut'[i]) ]_vars

\* one call applied the reads of an image view and wrote the array of a rebuilt
\* pipeline barrier into the pool
C18_Witness ==
    /\ Len(lastIn) = 2
    /\ lastIn[1].kind = "VkCreateImageView" /\ lastIn[2].kind = "VkCmdPipelineBarrier"
    /\ Replaced(2)
    /\ DataPtr(lastIn[1]) \in DOMAIN inputState.pool
    /\ DataPtr(lastOut[2]) \in DOMAIN inputState.pool
    /\ DataPtr(lastOut[2]) >= ScratchBase
    /\ mutated = <<>>

-----------------------------------------------------------------------------
\* C20: startDevInfoService returns after a bounded number of steps: it starts the
\* service at most startServiceAttempts times, polls the port at most
\* portListeningAttempts times after each start (so at most 15 times in all), and
\* once a poll has seen the port listening it has returned nil, with no start and
\* no poll after that.
C20_BoundedRetries ==
    /\ [](/\ dev.starts <= startServiceAttempts
          /\ dev.pollsThisStart <= portListeningAttempts
          /\ dev.polls <= startServiceAttempts * portListeningAttempts
          /\ dev.polls <= dev.starts * portListeningAttempts
          /\ dev.sawListening => (dev.pc = "done" /\ dev.ret = ""))
    /\ [][ dev.pc = "done" => dev' = dev ]_vars
    /\ <>(dev.pc = "done")

\* every start and every poll was used, and the last poll saw the port listening
C20_Witness ==
    /\ dev.pc = "done"
    /\ dev.starts = startServiceAttempts
    /\ dev.polls = startServiceAttempts * portListeningAttempts
    /\ dev.sawListening
    /\ dev.ret = ""

-----------------------------------------------------------------------------
(* Reading the claims about fetchDeviceInfo off a state. *)

Run(p) == fetch.run[p]

HoldsLock(p) == fetch.locks[GetSerial(p)] = p

\* the section of fetchDeviceInfo between flock.Lock and its return
InSection(p) ==
    Run(p).pc \in {"startDevInfoService", "ForwardAndConnect", "ReadAll", "UnmarshalMerge"}

Returned(p) == Run(p).pc = "done"

\* C21: startDevInfoService returns nil exactly when a poll saw the port listening;
\* when it fails, fetchDeviceInfo has not connected to the service and has not read
\* from it, it has released the device lock, and the caller goes on to register the
\* device.
C21_Original ==
    \A p \in Fetchers :
       /\ Run(p).dev.pc = "done" => (Run(p).dev.ret = "" <=> Run(p).dev.sawListening)
       /\ (Returned(p) /\ Run(p).dev.pc = "done" /\ Run(p).dev.ret # "") =>
             /\ Run(p).ret # ""
             /\ "ForwardAndConnect" \notin Run(p).called
             /\ "ReadAll" \notin Run(p).called
             /\ "Unlock" \in Run(p).called
             /\ ~HoldsLock(p)
             /\ Run(p).registered

\* what holds of C21 when the registration is left out
C21_ServiceFailure ==
    \A p \in Fetchers :
       /\ Run(p).dev.pc = "done" => (Run(p).dev.ret = "" <=> Run(p).dev.sawListening)
       /\ (Returned(p) /\ Run(p).dev.pc = "done" /\ Run(p).dev.ret # "") =>
             /\ Run(p).ret = "Starting service"
             /\ "ForwardAndConnect" \notin Run(p).called
             /\ "ReadAll" \notin Run(p).called
             /\ "Unlock" \in Run(p).called
             /\ ~HoldsLock(p)
             /\ ~Run(p).registered

\* the service ran out of attempts and the fetch returned the error to its caller
C21_Witness ==
    \E p \in Fetchers :
       /\ Returned(p)
       /\ Run(p).dev.ret = "Start DevInfo service: Run out of attempts"
       /\ ~Run(p).dev.sawListening
       /\ Run(p).ret = "Starting service"
       /\ ~Run(p).registered

-----------------------------------------------------------------------------
\* C22: when EnsureInstalled fails, fetchDeviceInfo returns nil, so that the device
\* is registered, and it has made no other call: it has not stopped the apk, not
\* prepared GPU profiling, not taken the device lock, not started the device-info
\* service and not opened a connection.
C22_MissingApk ==
    \A p \in Fetchers :
       (Returned(p) /\ "Stop" \notin Run(p).called) =>
          /\ Run(p).ret = ""
          /\ Run(p).registered
          /\ Run(p).called = {"EnsureInstalled"}
          /\ Run(p).obtained = {}
          /\ Run(p).deferred = <<>>
          /\ ~HoldsLock(p)

\* one fetcher has returned for a missing apk while the other queries the device
C22_Witness ==
    \E p \in Fetchers, q \in Fetchers :
       /\ Returned(p)
       /\ Run(p).called = {"EnsureInstalled"}
       /\ Run(p).ret = ""
       /\ Run(p).registered
       /\ Run(q).pc = "ReadAll"
       /\ HoldsLock(q)

-----------------------------------------------------------------------------
\* C23: a fetcher starts the device-info service, connects to its port and reads the
\* data only while it holds the lock of the device's serial; two fetchers of the same
\* serial are never in that section together; a fetcher that has returned does not
\* hold the lock, whatever it returned; and every fetcher returns, so none waits for
\* the lock for ever.
C23_Serialized ==
    /\ [](\A p \in Fetchers :
             /\ InSection(p) => HoldsLock(p)
             /\ \A q \in Fetchers \ {p} :
                   (GetSerial(p) = GetSerial(q) /\ InSection(p)) => ~InSection(q)
             /\ Returned(p) =>
                   /\ ~HoldsLock(p)
                   /\ "Lock" \in Run(p).called <=> "Unlock" \in Run(p).called)
    /\ <>(\A p \in Fetchers : Returned(p))

\* the second fetcher reads the data under the lock after the first one has
\* returned an error from inside the section
C23_Witness ==
    \E p \in Fetchers, q \in Fetchers :
       /\ Returned(p)
       /\ Run(p).ret = "Connecting to service port"
       /\ "Unlock" \in Run(p).called
       /\ Run(q).pc = "ReadAll"
       /\ HoldsLock(q)

-----------------------------------------------------------------------------
\* C24: once fetchDeviceInfo has returned after its call of PrepareGpuProfiling,
\* every cleanup that PrepareGpuProfiling and SetupLayers gave it has been invoked
\* exactly once.
C24_Original ==
    \A p \in Fetchers :
       (Returned(p) /\ "PrepareGpuProfiling" \in Run(p).called) =>
          \A c \in Run(p).obtained : Run(p).invoked[c] = 1

\* what holds of C24: the cleanups are invoked once on the error return of
\* PrepareGpuProfiling and on every return of a device that supports GPU profiling,
\* and not at all on the returns of a device that does not
C24_CleanupCounts ==
    \A p \in Fetchers :
       (Returned(p) /\ "PrepareGpuProfiling" \in Run(p).called) =>
          \A c \in Run(p).obtained :
             Run(p).invoked[c] =
                IF Run(p).supported \/ Run(p).ret = "PrepareGpuProfiling failed"
                THEN 1 ELSE 0

\* a device without GPU profiling returned its data, and the cleanup it got from
\* PrepareGpuProfiling was not invoked
C24_Witness ==
    \E p \in Fetchers :
       /\ Returned(p)
       /\ Run(p).ret = ""
       /\ "UnmarshalMerge" \in Run(p).called
       /\ ~Run(p).supported
       /\ Run(p).obtained = {"PrepareGpuProfiling"}
       /\ Run(p).invoked["PrepareGpuProfiling"] = 0

-----------------------------------------------------------------------------
\* the batch of the step holds targeted commands only, none with an active policy
OnlyInactive ==
    \A i \in DOMAIN lastIn' :
        lastIn'[i].kind \in TargetedKinds /\ ~PolicyActive(experiment, lastIn'[i])

\* C25: a command of a targeted kind whose policy is not active comes out as the
\* input command itself: image creation, image-view creation and pipeline barrier
\* when generateMipmaps is off, sampler creation when both policies are off.  A
\* batch of such commands makes no tracker allocation, leaves the application pool
\* and the rest of the global state as they were and has nothing mutated.
C25_InactivePolicy ==
    [][ TransformStep =>
          /\ \A i \in DOMAIN lastIn' :
                (lastIn'[i].kind \in TargetedKinds /\ ~PolicyActive(experiment, lastIn'[i]))
                    => PassedThrough(i)'
          /\ OnlyInactive =>
                /\ NoAllocation
                /\ experiment' = experiment
                /\ inputState'.pool = inputState.pool
                /\ inputState' = inputState
                /\ mutated' = mutated ]_vars

\* with disableAF alone an image and a pipeline barrier with a default sub-range came
\* back as themselves, and nothing was allocated or written
C25_Witness ==
    /\ experiment.disableAF /\ ~experiment.generateMipmaps
    /\ Len(lastIn) = 2
    /\ lastIn[1].kind = "VkCreateImage" /\ CreateInfoOf(lastIn[1]).mipLevels = 0
    /\ lastIn[2].kind = "VkCmdPipelineBarrier" /\ HasDefaultBarrier(lastIn[2])
    /\ lastOut = lastIn
    /\ experiment.allocations = <<>>
    /\ inputState.pool = EmptyPool

\* both policies are off and a sampler with anisotropy came back as itself
C25_SamplerCase ==
    /\ ~experiment.disableAF /\ ~experiment.generateMipmaps
    /\ \E i \in LastOfKind("VkCreateSampler") :
           /\ CreateInfoOf(lastIn[i]).anisotropyEnable = 1
           /\ PassedThrough(i)
    /\ inputState.pool = EmptyPool

-----------------------------------------------------------------------------
\* the clone of a barrier with the rewritten sub-range
RewrittenClone(barrier) ==
    [barrier EXCEPT !.subresourceRange.baseMipLevel = 0,
                    !.subresourceRange.levelCount = mipLevels]

OtherBarrierArgs(cmd) ==
    <<cmd.args.commandBuffer, cmd.args.srcStageMask, cmd.args.dstStageMask,
      cmd.args.dependencyFlags, cmd.args.memoryBarrierCount, cmd.args.pMemoryBarriers,
      cmd.args.bufferMemoryBarrierCount, cmd.args.pBufferMemoryBarriers>>

\* C26: a rebuilt pipeline barrier has the image-memory-barrier count of the input,
\* its barrier array has that many entries, entry j is barrier j of the input or
\* its rewritten clone, and its command buffer, stage masks, dependency flags and
\* memory-barrier and buffer-memory-barrier counts and pointers are the input's.
C26_BarrierShape ==
    \A i \in LastOfKind("VkCmdPipelineBarrier") :
        Replaced(i) =>
            /\ lastOut[i].args.imageMemoryBarrierCount = lastIn[i].args.imageMemoryBarrierCount
            /\ Len(BarriersOf(lastOut[i])) = lastIn[i].args.imageMemoryBarrierCount
            /\ \A j \in 1..lastIn[i].args.imageMemoryBarrierCount :
                   \/ BarriersOf(lastOut[i])[j] = BarriersOf(lastIn[i])[j]
                   \/ BarriersOf(lastOut[i])[j] = RewrittenClone(BarriersOf(lastIn[i])[j])
            /\ OtherBarrierArgs(lastOut[i]) = OtherBarrierArgs(lastIn[i])

\* a barrier command with two barriers was rebuilt: the first one kept, the second
\* one rewritten
C26_Witness ==
    \E i \in LastOfKind("VkCmdPipelineBarrier") :
        /\ Replaced(i)
        /\ lastIn[i].args.imageMemoryBarrierCount = 2
        /\ lastOut[i].args.imageMemoryBarrierCount = 2
        /\ BarriersOf(lastOut[i])[1] = BarriersOf(lastIn[i])[1]
        /\ BarriersOf(lastOut[i])[2] # BarriersOf(lastIn[i])[2]
        /\ BarriersOf(lastOut[i])[2] = RewrittenClone(BarriersOf(lastIn[i])[2])
        /\ OtherBarrierArgs(lastOut[i]) = OtherBarrierArgs(lastIn[i])

-----------------------------------------------------------------------------
\* the argument values the rewrite is about: the create info of a create command,
\* the barrier array of a pipeline barrier
RewrittenValues(cmd) ==
    IF cmd.kind \in CreateKinds THEN CreateInfoOf(cmd)
    ELSE IF cmd.kind = "VkCmdPipelineBarrier" /\ cmd.args.imageMemoryBarrierCount > 0
    THEN [sType |-> "VkImageMemoryBarrier[]", elems |-> BarriersOf(cmd)]
    ELSE [sType |-> "none"]

\* the command TransformCommand returns for cmd in the current state
Again(cmd) == TransformCommandResult(experiment, <<cmd>>, inputState).outputCmds[1]

\* C27: under every policy, TransformCommand applied to a command it has returned
\* yields a command with the same create info (sampler, image, image view) or the
\* same barriers (pipeline barrier) as the command it was applied to.
C27_Idempotent ==
    pass = "Active" =>
        \A i \in DOMAIN lastOut :
            /\ Again(lastOut[i]).kind = lastOut[i].kind
            /\ RewrittenValues(Again(lastOut[i])) = RewrittenValues(lastOut[i])

\* a rebuilt image and a rebuilt sampler: the second application returns the image
\* as it is and rebuilds the sampler with the same create info
C27_Witness ==
    /\ pass = "Active"
    /\ experiment.disableAF /\ experiment.generateMipmaps
    /\ Len(lastIn) = 2
    /\ lastIn[1].kind = "VkCreateImage" /\ lastIn[2].kind = "VkCreateSampler"
    /\ Replaced(1) /\ Replaced(2)
    /\ CreateInfoOf(lastOut[1]).mipLevels = mipLevels
    /\ Again(lastOut[1]) = lastOut[1]
    /\ Again(lastOut[2]) # lastOut[2]
    /\ CreateInfoOf(Again(lastOut[2])) = CreateInfoOf(lastOut[2])

-----------------------------------------------------------------------------
\* C28: generateMipmapsForImage called on a transform that stores no pool returns
\* the error of the queue lookup: nothing is handed to the state mutator, no handle
\* is returned, and the transform and the global state are what they were.  So a
\* transform that stores no pool never comes to store one.
C28_NoQueue ==
    [][ /\ (GenerateStep /\ experiment.pool = 0) =>
              /\ helperRet'.err = "Graphics Queue could not found"
              /\ helperRet'.newID = 0
              /\ Applied = <<>>
              /\ mutated' = mutated
              /\ experiment' = experiment
              /\ inputState' = inputState
        /\ experiment.pool = 0 => experiment'.pool = 0 ]_vars

\* two calls for a transform without a pool, both failed, nothing mutated
C28_Witness ==
    /\ helperRet.calls = 2
    /\ helperRet.fn = "generateMipmapsForImage"
    /\ helperRet.err = "Graphics Queue could not found"
    /\ helperRet.newID = 0
    /\ experiment.pool = 0
    /\ mutated = <<>>
    /\ Registry(inputState) = Registry(passStart.inputState)

\* in the transform's own passes no pool is stored and nothing is mutated
C28_TransformNeverMutates ==
    /\ experiment.pool = 0
    /\ mutated = <<>>
    /\ Registry(inputState) = Registry(NewState)

====
